---- MODULE Spec2Model ----
(***************************************************************************)
(* fnt: Numerical Toolbox.  A model of the driver (fnt.c), of its method   *)
(* catalogue and of the method state machines it dispatches to.            *)
(*                                                                         *)
(* Two revisions of fnt.c are in the source tree: src/src/fnt.c (from line *)
(* 519 on: named results, the ERROR/INFO macros) and the fnt.c held in     *)
(* src/unnamed/part_003 (seed, best-seen tracking, verbosity tests written *)
(* into the control flow).  The variable rev says which one is built.      *)
(*                                                                         *)
(* Real numbers are integers in units of 1e-6 (the methods' epsilon and    *)
(* default f_tol are then 1); a quotient is truncated toward zero.         *)
(***************************************************************************)
EXTENDS Integers, Sequences, FiniteSets, TLC

(***************************************************************************)
(* Return codes and verbosity levels (fnt_util.h).                         *)
(***************************************************************************)
FNT_SUCCESS == 0
FNT_FAILURE == 1
FNT_CONTINUE == 2
FNT_DONE == 3

FNT_NONE == 0
FNT_ERROR == 1
FNT_WARN == 2
FNT_INFO == 3
FNT_DEBUG == 4

\* const double epsilon = 1e-6, in units of 1e-6
epsilon == 1

(***************************************************************************)
(* Bounds of the model.                                                    *)
(***************************************************************************)
\* input points handed to set_value lie in 0..MaxX
MaxX == 1
\* objective values lie in -MaxF..MaxF
MaxF == 1
\* hyper-parameter values lie in 0..MaxH
MaxH == 1
\* dimensionalities asked of method_select lie in 0..MaxDim
MaxDim == 2
\* the methods directory holds MaxCopies copies of every method library
MaxCopies == 2
\* set_value calls recorded in the history of observed values
MaxCalls == 2
\* method_select calls made on one session when the catalogue is scanned
MaxSelects == 2
MaxEvals == 4
MaxN == 3

\* values received in the long Nelder-Mead runs
MaxRun == 31
\* the iteration budgets given to differential evolution lie in 1..MaxIter
MaxIter == 2
\* the members the index draws of differential evolution are taken from
MaxPick == 3

InputVals == 0..MaxX
FVals == (0 - MaxF)..MaxF
HVals == 0..MaxH
Dims == 0..MaxDim
Levels == FNT_NONE..FNT_DEBUG

Abs(x) == IF x < 0 THEN 0 - x ELSE x

\* a / b of two doubles, truncated toward zero on the 1e-6 grid
Quot(a, b) ==
    IF (a < 0) = (b < 0) THEN Abs(a) \div Abs(b) ELSE 0 - (Abs(a) \div Abs(b))

\* the double that is not a number, handed in as a function value
NaN == 0 - 2000000000

\* x < y and x <= y of two doubles: false as soon as one is not a number
Less(x, y) == x # NaN /\ y # NaN /\ x < y

AtMost(x, y) == x # NaN /\ y # NaN /\ x <= y

(***************************************************************************)
(* fnt_vect_t: a data pointer (alloc: non-NULL) and the elements.          *)
(***************************************************************************)
NullVect == [alloc |-> FALSE, v |-> <<>>]

Vect(s) == [alloc |-> TRUE, v |-> s]

fnt_vect_calloc(length) == Vect([i \in 1..length |-> 0])

\* the destination after fnt_vect_copy(dst, src), and the call's return value
fnt_vect_copy(dst, src) ==
    IF ~dst.alloc \/ ~src.alloc THEN [ret |-> FNT_FAILURE, dst |-> dst]
    ELSE IF Len(dst.v) # Len(src.v) THEN [ret |-> FNT_FAILURE, dst |-> dst]
    ELSE [ret |-> FNT_SUCCESS, dst |-> [dst EXCEPT !.v = src.v]]

\* 1.0 on the 1e-6 grid
One == 1000000

\* the element-wise operations of fnt_vect.h on vectors of one length
fnt_vect_add(a, b) == [i \in 1..Len(a) |-> a[i] + b[i]]

fnt_vect_sub(a, b) == [i \in 1..Len(a) |-> a[i] - b[i]]

\* the product of two reals of the grid, truncated to the grid; the factors
\* are split so that no intermediate product leaves 32 bits
Times(k, x) ==
    LET a == Abs(k)
        b == Abs(x)
        aq == a \div One
        ar == a % One
        bq == b \div One
        br == b % One
        low == (ar \div 1000) * (br \div 1000)
               + (((ar \div 1000) * (br % 1000) + (ar % 1000) * (br \div 1000))
                      * 1000 + (ar % 1000) * (br % 1000)) \div One
        magnitude == aq * bq * One + aq * br + ar * bq + low
    IN  IF (k < 0) = (x < 0) THEN magnitude ELSE 0 - magnitude

\* scaling is a real on the same grid
fnt_vect_scale(vec, scaling) == [i \in 1..Len(vec) |-> Times(scaling, vec[i])]

RECURSIVE SumSquares(_)
SumSquares(vec) ==
    IF vec = <<>> THEN 0 ELSE Head(vec) * Head(vec) + SumSquares(Tail(vec))

\* fnt_vect_dist(a, b) < bound, both sides squared (no square root is taken);
\* a difference of bound or more in one element already decides it
DistBelow(a, b, bound) ==
    LET diff == fnt_vect_sub(a, b)
    IN  /\ \A i \in 1..Len(diff) : Abs(diff[i]) < bound
        /\ SumSquares(diff) < bound * bound

(***************************************************************************)
(* The method libraries: the name method_name() reports and the entry      *)
(* points dlsym() finds.                                                   *)
(***************************************************************************)
Required == {"method_next", "method_value", "method_done"}
Common == Required \cup {"method_init", "method_free", "method_info",
                         "method_hparam_set", "method_hparam_get"}

LibNames == <<"bisection", "brent-dekker", "brents-localmin",
              "differential evolution", "gradient estimate", "nelder-mead",
              "newton-raphson", "secant", "simpson", "stub", "trapezoidal">>

Syms(lib) ==
    CASE lib = "bisection" -> Common \cup {"method_result"}
      [] lib = "brent-dekker" -> Common \cup {"method_result"}
      [] lib = "brents-localmin" -> Common
      [] lib = "differential evolution" -> Common \cup {"method_result"}
      [] lib = "gradient estimate" -> Common \cup {"method_result"}
      [] lib = "nelder-mead" -> Common \cup {"method_result", "method_seed"}
      [] lib = "newton-raphson" ->
            Common \cup {"method_result", "method_value_gradient"}
      [] lib = "secant" -> Common \cup {"method_result"}
      [] lib = "simpson" -> Common \cup {"method_result"}
      [] lib = "stub" -> Common \cup {"method_result", "method_value_gradient"}
      [] lib = "trapezoidal" -> Common \cup {"method_result"}
      [] OTHER -> {}

\* the spec's single-variate methods
SingleVariate == {"bisection", "secant", "newton-raphson", "brent-dekker",
                  "brents-localmin", "trapezoidal", "simpson"}

\* method_init tests calloc's result in these; the others use it unchecked
ChecksCalloc == {"bisection", "brent-dekker", "brents-localmin",
                 "gradient estimate", "newton-raphson", "secant", "simpson",
                 "stub", "trapezoidal"}

\* method_init refuses dimensions > 1 in these
ChecksDimensions == {"brent-dekker", "newton-raphson", "secant"}

(***************************************************************************)
(* Method instances.  NoHandle is the NULL handle.                         *)
(***************************************************************************)
NoHandle == [kind |-> "NULL"]

\* the instance calloc() returns, before method_init has filled it in
Zeroed(lib) ==
    CASE lib = "secant" ->
            [kind |-> "secant", state |-> "secant_initial", x_prev |-> 0,
             fx_prev |-> 0, x_next |-> 0, x_0 |-> 0, x_1 |-> 0, f_tol |-> 0,
             root_x |-> 0]
      [] lib = "newton-raphson" ->
            [kind |-> "newton-raphson", state |-> "nr_initial", last_x |-> 0,
             last_fx |-> 0, next_x |-> 0, f_tol |-> 0, root_x |-> 0]
      [] lib = "stub" -> [kind |-> "stub", placeholder |-> 0, result |-> 0]
      [] lib = "trapezoidal" ->
            [kind |-> "trapezoidal", state |-> "initial", first_fx |-> 0,
             sum |-> 0, last_fx |-> 0, curr_subinterval |-> 0, x_0 |-> 0,
             x_1 |-> 0, n |-> 0, area |-> 0]
      [] lib = "simpson" ->
            [kind |-> "simpson", state |-> "initial", first_fx |-> 0,
             sum1 |-> 0, sum2 |-> 0, last_fx |-> 0, curr_subinterval |-> 0,
             x_0 |-> 0, x_1 |-> 0, n |-> 0, area |-> 0]
      [] OTHER -> [kind |-> lib]

\* the fields method_init sets once its checks have passed
Initialized(lib) ==
    CASE lib = "secant" ->
            [Zeroed(lib) EXCEPT !.f_tol = 1, !.x_next = 0,
                                !.state = "secant_initial"]
      [] lib = "newton-raphson" ->
            [Zeroed(lib) EXCEPT !.f_tol = 1, !.next_x = 0,
                                !.state = "nr_initial"]
      [] OTHER -> Zeroed(lib)

\* nelder-mead.c method_init: the instance for the given dimensions
nm_init(dimensions) ==
    LET zero == [i \in 1..dimensions |-> 0]
        blank == [parameters |-> zero, value |-> 0]
    IN  [kind |-> "nelder-mead", dimensions |-> dimensions, iterations |-> 0,
         simplex |-> <<>>, seed |-> zero, state |-> "initial",
         x_r |-> blank, x_e |-> blank, x_c |-> blank, s_shrink |-> zero,
         alpha |-> One, beta |-> One \div 2, gamma |-> 2 * One,
         delta |-> One \div 2, dist_threshold |-> 10, max_iterations |-> 30]

\* gradient-estimate.c method_init: the instance for the given dimensions
ge_init(dimensions) ==
    [kind |-> "gradient estimate", x0 |-> [i \in 1..dimensions |-> 0],
     step |-> 1000, steps |-> [i \in 1..dimensions |-> 1000],
     has_steps_vec |-> 0, state |-> "initial", fx0 |-> 0, curr |-> 0,
     gradient |-> [i \in 1..dimensions |-> 0]]

\* bisection.c method_init.  Abscissae (a, b, the bounds) are in units of 1e-3
\* so that the default bounds -1e6 and 1e6 are integers TLC can hold; x_tol,
\* f_tol and the function values stay in units of 1e-6.  file names the
\* snapshot of the library: "simpson_c" is the one at simpson.c 287-567,
\* "bisection_c" is bisection.c.
bisection_init ==
    [kind |-> "bisection", file |-> "simpson_c", state |-> "initial",
     upper_bound |-> 1000 * One, lower_bound |-> 0 - 1000 * One,
     x_tol |-> 1, f_tol |-> 1, a |-> 0, b |-> 0, f_a |-> 0, f_b |-> 0,
     root_x |-> 0]

\* brent-dekker.c method_init.  macheps is held in units of 1e-10, t and the
\* abscissae in units of 1e-6.
bd_init ==
    [kind |-> "brent-dekker", state |-> "initial", macheps |-> 1, t |-> 1,
     a |-> 0, b |-> 0, c |-> 0, f_a |-> 0, f_b |-> 0, f_c |-> 0, d |-> 0,
     e |-> 0]

\* de.c (the snapshot from line 509) method_init.  Coordinates and values are
\* on the 1e-6 grid; current and best are the C indexes, counted from 0.
\* de_allocate_generations: NP zeroed vectors and values, twice
de_allocate_generations(h) ==
    [h EXCEPT !.x = [i \in 1..h.NP |-> [j \in 1..h.dim |-> 0]],
              !.x_prev = [i \in 1..h.NP |-> [j \in 1..h.dim |-> 0]],
              !.fx = [i \in 1..h.NP |-> 0],
              !.fx_prev = [i \in 1..h.NP |-> 0]]

de_init(dimensions) ==
    de_allocate_generations(
        [kind |-> "differential evolution", dim |-> dimensions,
         state |-> "initial", allocated_NP |-> dimensions * 10,
         iterations |-> 1000, NP |-> dimensions * 10, F |-> One \div 2,
         lambda |-> One \div 10, start_point |-> <<>>, lower_bounds |-> <<>>,
         upper_bounds |-> <<>>, has_start_point |-> 0, has_lower_bounds |-> 0,
         has_upper_bounds |-> 0, x |-> <<>>, x_prev |-> <<>>, fx |-> <<>>,
         fx_prev |-> <<>>, best |-> 0, v |-> [j \in 1..dimensions |-> 0],
         current |-> 0, min_fx |-> 0, min_x |-> [j \in 1..dimensions |-> 0],
         rand |-> [u |-> <<>>, r |-> <<>>]])

\* brent.c (part_013) method_init: calloc and nothing else; eps and t stay 0
brent_init ==
    [kind |-> "brents-localmin", state |-> "initial", a |-> 0, b |-> 0,
     c |-> 0, u |-> 0, v |-> 0, w |-> 0, x |-> 0, fu |-> 0, fv |-> 0,
     fw |-> 0, fx |-> 0, e |-> 0, d |-> 0, eps |-> 0, t |-> 0]

\* the instance a successful method_init leaves behind
InitializedFor(lib, dimensions) ==
    CASE lib = "nelder-mead" -> nm_init(dimensions)
      [] lib = "bisection" -> bisection_init
      [] lib = "brent-dekker" -> bd_init
      [] lib = "differential evolution" -> de_init(dimensions)
      [] lib = "brents-localmin" -> brent_init
      [] lib = "gradient estimate" -> ge_init(dimensions)
      [] OTHER -> Initialized(lib)

\* method_init(&handle, dimensions) of library lib; old is the handle before
\* the call, callocOk whether its calloc() succeeds.
method_init(lib, old, dimensions, callocOk) ==
    IF ~callocOk THEN
        IF lib \in ChecksCalloc
        THEN [ret |-> FNT_FAILURE, handle |-> old, crash |-> FALSE]
        ELSE [ret |-> FNT_FAILURE, handle |-> old, crash |-> TRUE]
    ELSE IF lib \in ChecksDimensions /\ dimensions > 1 THEN
        [ret |-> FNT_FAILURE, handle |-> Zeroed(lib), crash |-> FALSE]
    ELSE [ret |-> FNT_SUCCESS, handle |-> InitializedFor(lib, dimensions),
          crash |-> FALSE]

(***************************************************************************)
(* secant.c                                                                *)
(***************************************************************************)
\* FNT_HPARAM_SET("x_0" | "x_1" | "f_tol"): the macro stores and falls
\* through, so the function ends in its "No hyper-parameter" return.
secant_hparam_set(h, id, value) ==
    [ret |-> FNT_FAILURE,
     handle |-> CASE id = "x_0" -> [h EXCEPT !.x_0 = value]
                  [] id = "x_1" -> [h EXCEPT !.x_1 = value]
                  [] id = "f_tol" -> [h EXCEPT !.f_tol = value]
                  [] OTHER -> h]

secant_hparam_get(h, id) ==
    [ret |-> FNT_FAILURE,
     out |-> CASE id = "x_0" -> <<h.x_0>>
               [] id = "x_1" -> <<h.x_1>>
               [] id = "f_tol" -> <<h.f_tol>>
               [] OTHER -> <<>>]

secant_next(h) ==
    IF h.state = "secant_initial"
    THEN [ret |-> FNT_SUCCESS, handle |-> h, out |-> <<h.x_0>>]
    ELSE [ret |-> FNT_SUCCESS, handle |-> h, out |-> <<h.x_next>>]

secant_value(h, vec, value) ==
    IF h.state = "secant_initial" THEN
        [ret |-> FNT_SUCCESS,
         handle |-> [h EXCEPT !.x_prev = vec[1], !.fx_prev = value,
                              !.x_next = h.x_1, !.state = "secant_running"]]
    ELSE
        LET x == vec[1]
            fx == value
            delta_x == x - h.x_prev
            delta_fx == fx - h.fx_prev
        IN  IF Abs(delta_fx) < epsilon THEN [ret |-> FNT_FAILURE, handle |-> h]
            ELSE [ret |-> FNT_SUCCESS,
                  handle |-> [h EXCEPT
                      !.x_next = h.x_prev - Quot(h.fx_prev * delta_x, delta_fx),
                      !.x_prev = x, !.fx_prev = fx]]

secant_done(h) ==
    IF h.state = "secant_initial" THEN [ret |-> FNT_CONTINUE, handle |-> h]
    ELSE IF h.f_tol > Abs(h.fx_prev) THEN
        [ret |-> FNT_DONE,
         handle |-> [h EXCEPT !.root_x = h.x_prev, !.state = "secant_done"]]
    ELSE [ret |-> FNT_CONTINUE, handle |-> h]

\* FNT_RESULT_GET("root") stores and falls through to the failure return
secant_result(h, id) ==
    [ret |-> FNT_FAILURE, out |-> IF id = "root" THEN <<h.root_x>> ELSE <<>>]

(***************************************************************************)
(* newton-raphson.c                                                        *)
(***************************************************************************)
nr_hparam_set(h, id, value) ==
    [ret |-> FNT_SUCCESS,
     handle |-> CASE id = "x_0" -> [h EXCEPT !.next_x = value]
                  [] id = "f_tol" -> [h EXCEPT !.f_tol = value]
                  [] OTHER -> h]

nr_hparam_get(h, id) ==
    [ret |-> FNT_SUCCESS,
     out |-> CASE id = "x_0" -> <<h.next_x>>
               [] id = "f_tol" -> <<h.f_tol>>
               [] OTHER -> <<>>]

nr_next(h) == [ret |-> FNT_SUCCESS, handle |-> h, out |-> <<h.next_x>>]

\* plain set_value: "Newton-Raphsom method requires a dervative"
nr_value(h, vec, value) == [ret |-> FNT_FAILURE, handle |-> h]

nr_value_gradient(h, vec, value, gradient) ==
    LET x == vec[1]
        fx == value
        fx_der == gradient[1]
    IN  IF Abs(fx_der) < epsilon THEN [ret |-> FNT_FAILURE, handle |-> h]
        ELSE [ret |-> FNT_SUCCESS,
              handle |-> [h EXCEPT
                  !.last_x = x, !.last_fx = fx,
                  !.next_x = x - Quot(fx, fx_der),
                  !.state = IF h.state = "nr_initial" THEN "nr_running"
                            ELSE h.state]]

nr_done(h) ==
    IF h.state = "nr_initial" THEN [ret |-> FNT_CONTINUE, handle |-> h]
    ELSE IF h.f_tol > Abs(h.last_fx) THEN
        [ret |-> FNT_DONE, handle |-> [h EXCEPT !.root_x = h.last_x]]
    ELSE [ret |-> FNT_CONTINUE, handle |-> h]

nr_result(h, id) ==
    [ret |-> FNT_SUCCESS, out |-> IF id = "root" THEN <<h.root_x>> ELSE <<>>]

(***************************************************************************)
(* stubs.c: every entry point of the stub method reports failure.          *)
(***************************************************************************)
stub_hparam_set(h, id, value) ==
    [ret |-> FNT_FAILURE,
     handle |-> IF id = "placeholder" THEN [h EXCEPT !.placeholder = value]
                ELSE h]

stub_hparam_get(h, id) ==
    [ret |-> FNT_FAILURE,
     out |-> IF id = "placeholder" THEN <<h.placeholder>> ELSE <<>>]

stub_next(h) == [ret |-> FNT_FAILURE, handle |-> h, out |-> <<>>]

stub_value(h, vec, value) == [ret |-> FNT_FAILURE, handle |-> h]

stub_value_gradient(h, vec, value, gradient) ==
    [ret |-> FNT_FAILURE, handle |-> h]

stub_done(h) == [ret |-> FNT_FAILURE, handle |-> h]

stub_result(h, id) ==
    [ret |-> FNT_FAILURE, out |-> IF id = "result" THEN <<h.result>> ELSE <<>>]

(***************************************************************************)
(* trapezoidal.c and simpson.c; where only one operator is given the two   *)
(* files have the same text.                                               *)
(***************************************************************************)
\* what a division by a zero n leaves in a double
NonFinite == "nonfinite"

trapezoidal_hparam_set(h, id, value) ==
    [ret |-> FNT_FAILURE,
     handle |-> CASE id = "lower" -> [h EXCEPT !.x_0 = value]
                  [] id = "upper" -> [h EXCEPT !.x_1 = value]
                  [] id = "subintervals" -> [h EXCEPT !.n = value]
                  [] id = "n" -> [h EXCEPT !.n = value]
                  [] OTHER -> h]

trapezoidal_next(h) ==
    IF h.state = "done" THEN [ret |-> FNT_FAILURE, handle |-> h, out |-> <<>>]
    ELSE IF h.state = "initial"
    THEN [ret |-> FNT_SUCCESS, handle |-> h, out |-> <<h.x_0>>]
    ELSE [ret |-> FNT_SUCCESS, handle |-> h,
          out |-> IF h.n = 0 THEN <<NonFinite>>
                  ELSE <<h.x_0 + Quot(h.curr_subinterval * (h.x_1 - h.x_0),
                                      h.n)>>]

\* a last-subinterval test that lets one more value in
LastSubintervalLate(h) == h.curr_subinterval > h.n

\* curr_subinterval >= n: the value handed in is the final one
LastSubinterval(h) == h.curr_subinterval >= h.n

\* h = (x_1 - x_0) / n
SubintervalWidth(h) == Quot(h.x_1 - h.x_0, h.n)

trapezoidal_value(h, vec, value) ==
    IF h.state = "done" THEN [ret |-> FNT_FAILURE, handle |-> h]
    ELSE IF h.state = "initial" THEN
        [ret |-> FNT_SUCCESS,
         handle |-> [h EXCEPT !.first_fx = value, !.sum = 0,
                              !.curr_subinterval = 1, !.state = "running"]]
    ELSE IF LastSubinterval(h) THEN
        [ret |-> FNT_SUCCESS,
         handle |-> [h EXCEPT
             !.last_fx = value,
             !.area = IF h.n = 0 THEN NonFinite
                      ELSE Times(Quot(SubintervalWidth(h), 2),
                                 h.first_fx + value + 2 * h.sum),
             !.state = "done"]]
    ELSE [ret |-> FNT_SUCCESS,
          handle |-> [h EXCEPT !.sum = @ + value, !.curr_subinterval = @ + 1]]

simpson_value(h, vec, value) ==
    IF h.state = "done" THEN [ret |-> FNT_FAILURE, handle |-> h]
    ELSE IF h.state = "initial" THEN
        [ret |-> FNT_SUCCESS,
         handle |-> [h EXCEPT !.first_fx = value, !.sum1 = 0, !.sum2 = 0,
                              !.curr_subinterval = 1, !.state = "running"]]
    ELSE IF LastSubinterval(h) THEN
        [ret |-> FNT_SUCCESS,
         handle |-> [h EXCEPT
             !.last_fx = value,
             !.area = IF h.n = 0 THEN NonFinite
                      ELSE Times(Quot(SubintervalWidth(h), 3),
                                 h.first_fx + value + 2 * h.sum1
                                     + 4 * h.sum2),
             !.state = "done"]]
    ELSE IF h.curr_subinterval % 2 = 0
    THEN [ret |-> FNT_SUCCESS,
          handle |-> [h EXCEPT !.sum1 = @ + value, !.curr_subinterval = @ + 1]]
    ELSE [ret |-> FNT_SUCCESS,
          handle |-> [h EXCEPT !.sum2 = @ + value, !.curr_subinterval = @ + 1]]

trapezoidal_done(h) ==
    IF h.state = "done" THEN [ret |-> FNT_DONE, handle |-> h]
    ELSE [ret |-> FNT_CONTINUE, handle |-> h]

\* FNT_RESULT_GET stores the area and falls through to the failure
trapezoidal_result(h, id) ==
    IF h.state # "done" THEN [ret |-> FNT_FAILURE, out |-> <<>>]
    ELSE [ret |-> FNT_FAILURE, out |-> IF id = "area" THEN <<h.area>> ELSE <<>>]

(***************************************************************************)
(* gradient-estimate.c (brent-dekker.c from line 608).  Elements are       *)
(* counted from 1 here: element curr of the source is element curr + 1.    *)
(***************************************************************************)
\* what ptr->step holds after a vector was read through (double*)
Unspecified == "unspecified"

\* FNT_HPARAM_SET_VECT once the name has matched: the vector is copied and
\* the setter returns FNT_SUCCESS
FNT_HPARAM_SET_VECT(dst, src) == fnt_vect_copy(Vect(dst), Vect(src)).dst.v

ge_hparam_set(h, id, value) ==
    CASE id = "step" -> [ret |-> FNT_FAILURE, handle |-> [h EXCEPT !.step = value]]
      [] id = "x0" ->
            [ret |-> FNT_SUCCESS,
             handle |-> [h EXCEPT !.x0 = FNT_HPARAM_SET_VECT(@, value)]]
      [] id = "step_vec" ->
            [ret |-> FNT_SUCCESS,
             handle |-> [h EXCEPT !.step = Unspecified, !.has_steps_vec = 1,
                                  !.steps = FNT_HPARAM_SET_VECT(@, value)]]
      [] OTHER -> [ret |-> FNT_FAILURE, handle |-> h]

\* the step of the element in turn
ge_step(h) == IF h.has_steps_vec # 0 THEN h.steps[h.curr + 1] ELSE h.step

\* with curr past the last element the store would lie outside the vector;
\* no arm follows it
ge_next(h) ==
    CASE h.state = "initial" ->
            [ret |-> FNT_SUCCESS, handle |-> h, out |-> h.x0]
      [] h.state # "initial" /\ h.curr < Len(h.x0) ->
            [ret |-> FNT_SUCCESS, handle |-> h,
             out |-> [h.x0 EXCEPT ![h.curr + 1] = @ + ge_step(h)]]

\* a partial derivative that forgets f(x0)
ge_quotient_of_value(value, fx0, step) ==
    IF step = 0 THEN NonFinite ELSE Quot(value * One, step)

\* (value - fx0) / step
ge_quotient(value, fx0, step) ==
    IF step = 0 THEN NonFinite ELSE Quot((value - fx0) * One, step)

ge_value(h, vec, value) ==
    CASE h.state = "initial" ->
            [ret |-> FNT_SUCCESS,
             handle |-> [h EXCEPT !.fx0 = value, !.curr = 0,
                                  !.state = "running"]]
      [] h.state # "initial" /\ h.curr < Len(h.gradient) ->
            [ret |-> FNT_SUCCESS,
             handle |-> [h EXCEPT
                 !.gradient[h.curr + 1] = ge_quotient(value, h.fx0, ge_step(h)),
                 !.curr = @ + 1,
                 !.state = IF h.curr + 1 >= Len(h.gradient) THEN "done" ELSE @]]

ge_done(h) ==
    IF h.state = "done" THEN [ret |-> FNT_DONE, handle |-> h]
    ELSE [ret |-> FNT_CONTINUE, handle |-> h]

\* FNT_RESULT_GET_VECT stores the gradient and falls through to the failure
ge_result(h, id) ==
    [ret |-> FNT_FAILURE, out |-> IF id = "gradient" THEN h.gradient ELSE <<>>]

(***************************************************************************)
(* nelder-mead.c                                                           *)
(***************************************************************************)
\* a sample put where it belongs in a simplex sorted by value; equal values
\* keep their order, as the strict comparison of nm_simplex_sort leaves them
RECURSIVE nm_insert(_, _)
nm_insert(sorted, sample) ==
    IF sorted = <<>> THEN <<sample>>
    ELSE IF sorted[Len(sorted)].value > sample.value
    THEN Append(nm_insert(SubSeq(sorted, 1, Len(sorted) - 1), sample),
                sorted[Len(sorted)])
    ELSE Append(sorted, sample)

RECURSIVE nm_simplex_sort(_)
nm_simplex_sort(points) ==
    IF Len(points) <= 1 THEN points
    ELSE nm_insert(nm_simplex_sort(SubSeq(points, 1, Len(points) - 1)),
                   points[Len(points)])

\* the simplex as method_next, method_value and method_done look at it
nm_sorted(h) ==
    IF h.state # "shrink" /\ h.state # "shrink2"
    THEN nm_simplex_sort(h.simplex) ELSE h.simplex

nm_hparam_set(h, id, value) ==
    CASE id = "alpha" -> [ret |-> FNT_SUCCESS, handle |-> [h EXCEPT !.alpha = value]]
      [] id = "beta" -> [ret |-> FNT_SUCCESS, handle |-> [h EXCEPT !.beta = value]]
      [] id = "gamma" -> [ret |-> FNT_SUCCESS, handle |-> [h EXCEPT !.gamma = value]]
      [] id = "delta" -> [ret |-> FNT_SUCCESS, handle |-> [h EXCEPT !.delta = value]]
      [] OTHER -> [ret |-> FNT_FAILURE, handle |-> h]

nm_hparam_get(h, id) ==
    CASE id = "alpha" -> [ret |-> FNT_SUCCESS, out |-> <<h.alpha>>]
      [] id = "beta" -> [ret |-> FNT_SUCCESS, out |-> <<h.beta>>]
      [] id = "gamma" -> [ret |-> FNT_SUCCESS, out |-> <<h.gamma>>]
      [] id = "delta" -> [ret |-> FNT_SUCCESS, out |-> <<h.delta>>]
      [] OTHER -> [ret |-> FNT_FAILURE, out |-> <<>>]

\* a seed test that forgets the state
nm_seed_anytime(h, seed) ==
    [ret |-> FNT_SUCCESS,
     handle |-> [h EXCEPT !.seed = fnt_vect_copy(Vect(h.seed), Vect(seed)).dst.v]]

nm_seed(h, seed) ==
    IF h.state # "initial" THEN [ret |-> FNT_FAILURE, handle |-> h]
    ELSE [ret |-> FNT_SUCCESS,
          handle |-> [h EXCEPT
              !.seed = fnt_vect_copy(Vect(h.seed), Vect(seed)).dst.v]]

\* the centroid of all simplex points but the last
RECURSIVE nm_sum(_, _)
nm_sum(points, n) ==
    IF n = 0 THEN [i \in 1..Len(points[1].parameters) |-> 0]
    ELSE fnt_vect_add(nm_sum(points, n - 1), points[n].parameters)

nm_centroid(points) ==
    LET n == Len(points) - 1
    IN  [i \in 1..Len(points[1].parameters) |-> Quot(nm_sum(points, n)[i], n)]

\* a bootstrap point moved by one unit whatever the count
nm_initial_point_unit(seed, count) == [seed EXCEPT ![count] = @ + One]

\* FNT_VECT_ELEM(*vector, pos) += nm->simplex.count, pos = count - 1
nm_initial_point(seed, count) == [seed EXCEPT ![count] = @ + count * One]

\* method_next into a vector of the instance's length
\* a second shrink point read after the scratch vector was reset
nm_second_shrink_point_reset(h) == [i \in 1..h.dimensions |-> 0]

\* the second shrink point: the scratch vector as the shrink phase left it
nm_second_shrink_point(h) == h.s_shrink

nm_next(h) ==
    LET count == Len(h.simplex)
    IN  IF h.state = "initial" /\ count < h.dimensions + 1 THEN
            IF count > 0
            THEN [ret |-> FNT_SUCCESS, handle |-> h,
                  out |-> nm_initial_point(h.seed, count)]
            ELSE [ret |-> FNT_SUCCESS, handle |-> h, out |-> h.seed]
        ELSE IF count # h.dimensions + 1 THEN
            [ret |-> FNT_SUCCESS, handle |-> h, out |-> h.seed]
        ELSE
            LET points == nm_sorted(h)
                hi == points[count].parameters
                s == points[count - 1].parameters
                centroid == nm_centroid(points)
                g == [h EXCEPT !.simplex = points]
                from(base, delta, k) ==
                    fnt_vect_add(base, fnt_vect_scale(delta, k))
            IN  CASE h.state = "reflect" ->
                        [ret |-> FNT_SUCCESS, handle |-> g,
                         out |-> from(centroid, fnt_vect_sub(centroid, hi),
                                      h.alpha)]
                  [] h.state = "expand" ->
                        [ret |-> FNT_SUCCESS, handle |-> g,
                         out |-> from(centroid,
                                      fnt_vect_sub(h.x_r.parameters, centroid),
                                      h.gamma)]
                  [] h.state = "contract_out" ->
                        [ret |-> FNT_SUCCESS, handle |-> g,
                         out |-> from(centroid,
                                      fnt_vect_sub(h.x_r.parameters, centroid),
                                      h.beta)]
                  [] h.state = "contract_in" ->
                        [ret |-> FNT_SUCCESS, handle |-> g,
                         out |-> from(centroid, fnt_vect_sub(hi, centroid),
                                      h.beta)]
                  [] h.state = "shrink" ->
                        [ret |-> FNT_SUCCESS,
                         handle |-> [g EXCEPT !.s_shrink =
                             fnt_vect_scale(
                                 fnt_vect_add(h.x_r.parameters, s), One \div 2)],
                         out |-> fnt_vect_scale(
                                     fnt_vect_add(h.x_r.parameters, hi),
                                     One \div 2)]
                  [] h.state = "shrink2" ->
                        [ret |-> FNT_SUCCESS,
                         handle |-> [g EXCEPT !.s_shrink =
                                         [i \in 1..h.dimensions |-> 0]],
                         out |-> nm_second_shrink_point(h)]

\* the state method_value leaves when the new sample r was not accepted
nm_not_accepted(r, l, s, hi) ==
    IF Less(r.value, l.value) THEN "expand"
    ELSE IF AtMost(s.value, r.value)
    THEN IF AtMost(s.value, r.value) /\ Less(r.value, hi.value)
         THEN "contract_out" ELSE "contract_in"
    ELSE "shrink"

nm_value(h, parameters, value) ==
    LET count == Len(h.simplex)
        r == [parameters |-> parameters, value |-> value]
        n == [h EXCEPT !.iterations = @ + 1]
    IN  IF h.state = "shrink2" THEN
            [ret |-> FNT_SUCCESS,
             handle |-> [n EXCEPT !.simplex[count - 1] = r, !.state = "reflect"]]
        ELSE IF h.state = "shrink" THEN
            [ret |-> FNT_SUCCESS,
             handle |-> [n EXCEPT !.simplex[count] = r, !.state = "shrink2"]]
        ELSE IF count <= h.dimensions THEN
            [ret |-> FNT_SUCCESS,
             handle |-> [n EXCEPT !.simplex = Append(@, r),
                                  !.state = IF count + 1 >= h.dimensions + 1
                                            THEN "reflect" ELSE @]]
        ELSE
            LET points == nm_simplex_sort(h.simplex)
                hi == points[count]
                s == points[count - 1]
                l == points[1]
                g == [n EXCEPT !.simplex = points]
                rejected(k) ==
                    [ret |-> FNT_SUCCESS,
                     handle |-> [k EXCEPT !.state = nm_not_accepted(r, l, s, hi)]]
            IN  CASE h.state = "reflect" ->
                        IF AtMost(l.value, r.value) /\ Less(r.value, s.value)
                        THEN [ret |-> FNT_SUCCESS,
                              handle |-> [g EXCEPT !.x_r = r,
                                                   !.simplex[count] = r]]
                        ELSE rejected([g EXCEPT !.x_r = r])
                  [] h.state = "expand" ->
                        [ret |-> FNT_SUCCESS,
                         handle |-> [g EXCEPT
                             !.x_e = r,
                             !.simplex[count] =
                                 IF Less(r.value, h.x_r.value) THEN r ELSE h.x_r,
                             !.state = "reflect"]]
                  [] h.state = "contract_out" ->
                        IF Less(r.value, h.x_r.value)
                        THEN [ret |-> FNT_SUCCESS,
                              handle |-> [g EXCEPT !.x_c = r,
                                                   !.simplex[count] = r,
                                                   !.state = "reflect"]]
                        ELSE rejected([g EXCEPT !.x_c = r])
                  [] h.state = "contract_in" ->
                        IF Less(r.value, hi.value)
                        THEN [ret |-> FNT_SUCCESS,
                              handle |-> [g EXCEPT !.x_c = r,
                                                   !.simplex[count] = r,
                                                   !.state = "reflect"]]
                        ELSE rejected([g EXCEPT !.x_c = r])
                  [] OTHER -> rejected(g)

\* an iteration limit that is never reached
nm_iterations_unlimited(h) == FALSE

\* check maximum iterations
nm_iterations_exceeded(h) == h.iterations > h.max_iterations

nm_done(h) ==
    IF h.state = "initial" THEN [ret |-> FNT_CONTINUE, handle |-> h]
    ELSE IF nm_iterations_exceeded(h)
    THEN [ret |-> FNT_DONE, handle |-> h]
    ELSE LET points == nm_sorted(h)
             g == [h EXCEPT !.simplex = points]
         IN  IF DistBelow(points[1].parameters,
                          points[Len(points)].parameters, h.dist_threshold)
             THEN [ret |-> FNT_DONE, handle |-> g]
             ELSE [ret |-> FNT_CONTINUE, handle |-> g]

\* This method does not produce additional results.
nm_result(h, id) == [ret |-> FNT_FAILURE, out |-> <<>>]

(***************************************************************************)
(* bisection.c, and its later snapshot at simpson.c 287-567.               *)
(***************************************************************************)
bisection_hparam_set(h, id, value) ==
    LET set == CASE id = "f_tol" -> [h EXCEPT !.f_tol = value]
                 [] id = "x_tol" -> [h EXCEPT !.x_tol = value]
                 [] id = "lower" -> [h EXCEPT !.lower_bound = value]
                 [] id = "upper" -> [h EXCEPT !.upper_bound = value]
                 [] OTHER -> h
    IN  IF h.file = "bisection_c"
        THEN [ret |-> FNT_SUCCESS,
              handle |-> [set EXCEPT !.a = set.lower_bound,
                                     !.b = set.upper_bound]]
        ELSE [ret |-> FNT_FAILURE, handle |-> set]

bisection_next(h) ==
    IF h.state = "initial" THEN
        IF h.file = "bisection_c"
        THEN [ret |-> FNT_SUCCESS, handle |-> h, out |-> <<h.a>>]
        ELSE [ret |-> FNT_SUCCESS,
              handle |-> [h EXCEPT !.a = h.lower_bound, !.b = h.upper_bound],
              out |-> <<h.lower_bound>>]
    ELSE IF h.state = "initial2"
    THEN [ret |-> FNT_SUCCESS, handle |-> h, out |-> <<h.b>>]
    ELSE [ret |-> FNT_SUCCESS, handle |-> h, out |-> <<Quot(h.a + h.b, 2)>>]

\* the exchange of the endpoints as simpson.c 479-480 writes it
bisection_swap(h) ==
    [h EXCEPT !.a = h.b, !.b = h.a, !.f_a = h.f_b, !.f_b = h.f_a]

\* the exchange as bisection.c 163-165 writes it: tmp takes a, b takes a, a
\* takes tmp, and likewise for the values
bisection_swap_tmp(h) == [h EXCEPT !.b = h.a, !.f_b = h.f_a]

bisection_value(h, vec, value) ==
    IF h.state = "initial2" THEN
        LET got == [h EXCEPT !.f_b = value]
            ord == IF got.f_b < got.f_a
                   THEN IF h.file = "bisection_c" THEN bisection_swap_tmp(got)
                        ELSE bisection_swap(got)
                   ELSE got
        IN  IF ord.f_a > 0 \/ ord.f_b < 0
            THEN [ret |-> FNT_FAILURE, handle |-> ord]
            ELSE [ret |-> FNT_SUCCESS, handle |-> [ord EXCEPT !.state = "running"]]
    ELSE IF h.state = "initial" THEN
        [ret |-> FNT_SUCCESS,
         handle |-> [h EXCEPT !.f_a = value, !.state = "initial2"]]
    ELSE IF h.state # "running" THEN [ret |-> FNT_FAILURE, handle |-> h]
    ELSE IF value < 0 THEN
        [ret |-> FNT_SUCCESS, handle |-> [h EXCEPT !.a = vec[1], !.f_a = value]]
    ELSE IF value > 0 THEN
        [ret |-> FNT_SUCCESS, handle |-> [h EXCEPT !.b = vec[1], !.f_b = value]]
    ELSE IF h.file = "bisection_c" THEN
        [ret |-> FNT_SUCCESS,
         handle |-> [h EXCEPT !.a = vec[1], !.f_a = 0, !.f_b = 0,
                              !.state = "done"]]
    ELSE [ret |-> FNT_SUCCESS,
          handle |-> [h EXCEPT !.a = vec[1], !.b = vec[1], !.f_a = 0,
                               !.f_b = 0, !.root_x = vec[1], !.state = "done"]]

\* method_done.  simpson.c 532 reports no completion while an endpoint value
\* is missing; bisection.c has no such test.  within(d, tol) is d < tol for a
\* difference d of abscissae (units of 1e-3) and a tolerance in units of 1e-6.
bisection_done(h) ==
    LET waits == h.file = "simpson_c" /\ h.state \in {"initial", "initial2"}
        within(d, tol) == d < 0 - ((0 - tol) \div 1000)
        dx == IF h.file = "bisection_c" THEN h.b - h.a ELSE Abs(h.b - h.a)
        df == IF h.file = "bisection_c" THEN h.f_b - h.f_a
              ELSE Abs(h.f_b - h.f_a)
        mid == IF h.file = "bisection_c" THEN h.root_x
               ELSE Quot(h.b + h.a, 2)
    IN  IF waits THEN [ret |-> FNT_CONTINUE, handle |-> h]
        ELSE IF h.state = "done" THEN [ret |-> FNT_DONE, handle |-> h]
        ELSE IF within(dx, h.x_tol) \/ df < h.f_tol
        THEN [ret |-> FNT_DONE,
              handle |-> [h EXCEPT !.root_x = mid, !.state = "done"]]
        ELSE [ret |-> FNT_CONTINUE, handle |-> h]

(***************************************************************************)
(* brent-dekker.c, lines 1-322.                                            *)
(***************************************************************************)
bd_hparam_set(h, id, value) ==
    [ret |-> FNT_SUCCESS,
     handle |-> CASE id = "macheps" -> [h EXCEPT !.macheps = value]
                  [] id = "t" -> [h EXCEPT !.t = value]
                  [] id = "x_0" -> [h EXCEPT !.a = value]
                  [] id = "x_1" -> [h EXCEPT !.b = value]
                  [] OTHER -> h]

bd_next(h) ==
    IF h.state = "initial"
    THEN [ret |-> FNT_SUCCESS, handle |-> h, out |-> <<h.a>>]
    ELSE [ret |-> FNT_SUCCESS, handle |-> h, out |-> <<h.b>>]

\* the new step d and the step before it e (FORTRAN 40-90) for the locals v,
\* with m2 = c - b = 2m.  p and q are held multiplied by f_a^2 (linear
\* interpolation) or by f_a^2 f_c^2 (inverse quadratic interpolation), which
\* changes neither their signs nor the tests nor p/q.
bd_step(v, tol, m2) ==
    LET m == Quot(m2, 2)
        p0 == IF v.a = v.c THEN m2 * v.f_b * v.f_a
              ELSE v.f_a * v.f_b
                   * (m2 * v.f_a * (v.f_a - v.f_b)
                      - (v.b - v.a) * (v.f_b - v.f_c) * v.f_c)
        q0 == IF v.a = v.c THEN v.f_a * v.f_a - v.f_b * v.f_a
              ELSE v.f_a * (v.f_a - v.f_c) * (v.f_b - v.f_c) * (v.f_b - v.f_a)
        p == Abs(p0)
        q == IF p0 > 0 THEN 0 - q0 ELSE q0
    IN  IF Abs(v.e) < tol \/ Abs(v.f_a) <= Abs(v.f_b)
        THEN [d |-> m, e |-> m]
        ELSE IF 4 * p < 3 * m2 * q - 2 * Abs(tol * q) /\ 2 * p < Abs(v.e * q)
        THEN [d |-> Quot(p, q), e |-> v.d]
        ELSE [d |-> m, e |-> m]

\* the sign test that overlooks two negative endpoint values
bd_both_positive(f_a, f_b) == f_a > 0 /\ f_b > 0

\* f_a * f_b > 0.0
bd_same_sign(f_a, f_b) == f_a * f_b > 0

\* an update that leaves b and c as they are
bd_ext_skipped(v) == v

\* ALGOL ext: b and c change places when f_c is the smaller in magnitude,
\* and a follows the new c
bd_ext(v) ==
    IF Abs(v.f_c) < Abs(v.f_b)
    THEN [v EXCEPT !.a = v.b, !.b = v.c, !.c = v.b,
                   !.f_a = v.f_b, !.f_b = v.f_c, !.f_c = v.f_b]
    ELSE v

\* the Brent-Dekker update of a, b and c with the new b and f(b)
bd_update(h, vec, value) ==
    LET v0 == [h EXCEPT !.b = vec[1], !.f_b = value]
        int == \/ v0.f_b > 0 /\ v0.f_c > 0
               \/ v0.f_b <= 0 /\ v0.f_c <= 0
               \/ v0.state = "starting"
        v1 == IF int
              THEN [v0 EXCEPT !.c = v0.a, !.f_c = v0.f_a, !.d = v0.b - v0.a,
                              !.e = v0.b - v0.a,
                              !.state = IF @ = "starting" THEN "running" ELSE @]
              ELSE v0
        v2 == bd_ext(v1)
        tol == Quot(2 * v2.macheps * Abs(v2.b), 10000) + v2.t
        m2 == v2.c - v2.b
        st == bd_step(v2, tol, m2)
    IN  IF Abs(m2) > 2 * tol /\ v2.f_b # 0
        THEN [ret |-> FNT_SUCCESS,
              handle |-> [v2 EXCEPT
                  !.d = st.d, !.e = st.e, !.a = v2.b, !.f_a = v2.f_b,
                  !.b = v2.b + (IF Abs(st.d) > tol THEN st.d
                                ELSE IF m2 > 0 THEN tol ELSE 0 - tol)]]
        ELSE [ret |-> FNT_SUCCESS, handle |-> [v2 EXCEPT !.state = "done"]]

bd_value(h, vec, value) ==
    IF h.state = "initial" THEN
        [ret |-> FNT_SUCCESS,
         handle |-> [h EXCEPT !.a = vec[1], !.f_a = value,
                              !.state = "initial2"]]
    ELSE IF h.state = "initial2" THEN
        LET g == [h EXCEPT !.b = vec[1], !.f_b = value]
        IN  IF bd_same_sign(g.f_a, g.f_b)
            THEN [ret |-> FNT_FAILURE, handle |-> [g EXCEPT !.state = "done"]]
            ELSE bd_update([g EXCEPT !.state = "starting"], vec, value)
    ELSE bd_update(h, vec, value)

bd_done(h) ==
    IF h.state = "done" THEN [ret |-> FNT_DONE, handle |-> h]
    ELSE [ret |-> FNT_CONTINUE, handle |-> h]

(***************************************************************************)
(* de.c (the snapshot from line 509): differential evolution.  Coordinates *)
(* and values are on the 1e-6 grid.  current and best are the C indexes,   *)
(* counted from 0.  rand holds what rand() yields during the next call: u, *)
(* one draw of rand()/RAND_MAX per dimension, and r, the three indexes the *)
(* loops of method_next settle for.  NP above the allocation (a read past  *)
(* the arrays) is not among the inputs.                                    *)
(***************************************************************************)
\* the return value of a call that does not return
NoReturn == 0 - 1

\* bounds out of order are swapped, NP below 3 becomes 3, and the
\* generations are allocated anew when NP differs from allocated_NP
validate_hparams(h) ==
    LET both == h.has_lower_bounds = 1 /\ h.has_upper_bounds = 1
        swapped(j) == h.upper_bounds[j] < h.lower_bounds[j]
        g == [h EXCEPT
                !.lower_bounds =
                    IF both
                    THEN [j \in 1..Len(h.lower_bounds) |->
                            IF swapped(j) THEN h.upper_bounds[j]
                            ELSE h.lower_bounds[j]]
                    ELSE @,
                !.upper_bounds =
                    IF both
                    THEN [j \in 1..Len(h.lower_bounds) |->
                            IF swapped(j) THEN h.lower_bounds[j]
                            ELSE h.upper_bounds[j]]
                    ELSE @,
                !.NP = IF h.NP < 3 THEN 3 ELSE h.NP]
    IN  IF g.NP # g.allocated_NP THEN de_allocate_generations(g) ELSE g

\* the point the first call of method_next hands out
de_fill_first_gen(h) ==
    LET around(j) ==
            LET v0 == h.start_point[j] + (h.rand.u[j] - One \div 2)
                v1 == IF h.has_lower_bounds = 1 /\ v0 < h.lower_bounds[j]
                      THEN h.lower_bounds[j] ELSE v0
            IN  IF h.has_upper_bounds = 1 /\ v1 > h.upper_bounds[j]
                THEN h.upper_bounds[j] ELSE v1
        uniform(j) ==
            LET lower0 == IF h.has_lower_bounds = 1 THEN h.lower_bounds[j]
                          ELSE 0 - One
                upper0 == IF h.has_lower_bounds = 1 /\ h.has_upper_bounds = 0
                          THEN lower0 + One ELSE One
                upper == IF h.has_upper_bounds = 1 THEN h.upper_bounds[j]
                         ELSE upper0
                lower == IF h.has_upper_bounds = 1 /\ h.has_lower_bounds = 0
                         THEN lower0 - One ELSE lower0
            IN  lower + Times(h.rand.u[j], upper - lower)
    IN  [h EXCEPT !.v = [j \in 1..h.dim |->
                            IF h.has_start_point = 1 THEN around(j)
                            ELSE uniform(j)]]

\* the scalar setters store the value and fall through to the failure at
\* the end; the vector setters return FNT_SUCCESS
de_hparam_set(h, id, value) ==
    CASE id = "iterations" ->
            [ret |-> FNT_FAILURE, handle |-> [h EXCEPT !.iterations = value]]
      [] id = "F" -> [ret |-> FNT_FAILURE, handle |-> [h EXCEPT !.F = value]]
      [] id = "lambda" ->
            [ret |-> FNT_FAILURE, handle |-> [h EXCEPT !.lambda = value]]
      [] id = "NP" -> [ret |-> FNT_FAILURE, handle |-> [h EXCEPT !.NP = value]]
      [] id = "start" ->
            [ret |-> FNT_SUCCESS,
             handle |-> [h EXCEPT !.has_start_point = 1,
                            !.start_point = FNT_HPARAM_SET_VECT(
                                [j \in 1..h.dim |-> 0], value)]]
      [] id = "lower" ->
            [ret |-> FNT_SUCCESS,
             handle |-> [h EXCEPT !.has_lower_bounds = 1,
                            !.lower_bounds = FNT_HPARAM_SET_VECT(
                                [j \in 1..h.dim |-> 0], value)]]
      [] id = "upper" ->
            [ret |-> FNT_SUCCESS,
             handle |-> [h EXCEPT !.has_upper_bounds = 1,
                            !.upper_bounds = FNT_HPARAM_SET_VECT(
                                [j \in 1..h.dim |-> 0], value)]]
      [] OTHER -> [ret |-> FNT_FAILURE, handle |-> h]

\* a clamp that forgets the upper bounds
de_apply_lower_bounds(h, v) ==
    [j \in 1..Len(v) |->
        IF h.has_lower_bounds = 1 /\ v[j] < h.lower_bounds[j]
        THEN h.lower_bounds[j] ELSE v[j]]

\* the trial vector clamped to the lower bounds, then to the upper bounds
de_apply_bounds(h, v) ==
    LET low == [j \in 1..Len(v) |->
                    IF h.has_lower_bounds = 1 /\ v[j] < h.lower_bounds[j]
                    THEN h.lower_bounds[j] ELSE v[j]]
    IN  [j \in 1..Len(v) |->
            IF h.has_upper_bounds = 1 /\ low[j] > h.upper_bounds[j]
            THEN h.upper_bounds[j] ELSE low[j]]

de_next(h) ==
    IF h.state = "initial" THEN
        LET g == de_fill_first_gen(validate_hparams(h))
        IN  [ret |-> FNT_SUCCESS, handle |-> g, out |-> g.v]
    ELSE IF h.state # "running" THEN
        [ret |-> FNT_FAILURE, handle |-> h, out |-> <<>>]
    ELSE IF h.NP < 3 THEN [ret |-> NoReturn, handle |-> h, out |-> <<>>]
    ELSE
        LET curr == h.current + 1
            r1 == h.rand.r[1] + 1
            r2 == h.rand.r[2] + 1
            r3 == h.rand.r[3] + 1
            step == fnt_vect_scale(fnt_vect_sub(h.x_prev[r2], h.x_prev[r3]),
                                   h.F)
            v == IF h.lambda # 0 THEN
                     fnt_vect_add(
                         fnt_vect_add(
                             h.x_prev[curr],
                             fnt_vect_scale(
                                 fnt_vect_sub(h.x_prev[h.best + 1],
                                              h.x_prev[curr]),
                                 h.lambda)),
                         step)
                 ELSE IF h.F # 0 THEN fnt_vect_add(h.x_prev[r1], step)
                 ELSE h.v
            g == [h EXCEPT !.v = de_apply_bounds(h, v)]
        IN  [ret |-> FNT_SUCCESS, handle |-> g, out |-> g.v]

de_value(h, vec, value) ==
    LET curr == h.current + 1
        replace == value < h.fx_prev[curr] \/ h.state = "initial"
        x == [h.x EXCEPT ![curr] = IF replace THEN vec ELSE h.x_prev[curr]]
        fx == [h.fx EXCEPT ![curr] = IF replace THEN value
                                      ELSE h.fx_prev[curr]]
        g == [h EXCEPT !.x = x, !.fx = fx,
                       !.state = IF @ = "initial" THEN "running" ELSE @,
                       !.best = IF value < fx[h.best + 1] THEN h.current ELSE @,
                       !.current = @ + 1]
    IN  IF g.current >= g.NP
        THEN [ret |-> FNT_SUCCESS,
              handle |-> [g EXCEPT !.x = g.x_prev, !.x_prev = g.x,
                                   !.fx = g.fx_prev, !.fx_prev = g.fx,
                                   !.current = 0, !.iterations = @ - 1]]
        ELSE [ret |-> FNT_SUCCESS, handle |-> g]

\* a budget test that asks for one generation more
de_budget_overspent(iterations) == iterations < 0

\* iterations <= 0
de_budget_spent(iterations) == iterations <= 0

de_done(h) ==
    IF h.state = "initial" THEN [ret |-> FNT_CONTINUE, handle |-> h]
    ELSE IF de_budget_spent(h.iterations) THEN
        [ret |-> FNT_DONE,
         handle |-> [h EXCEPT !.min_fx = h.fx[h.best + 1],
                              !.min_x = h.x[h.best + 1], !.state = "done"]]
    ELSE [ret |-> FNT_CONTINUE, handle |-> h]

(***************************************************************************)
(* brent.c (part_013; part_012 from line 232 is the same code): Brent's    *)
(* localmin.  Its doubles are held on the 1e-3 grid, products and          *)
(* quotients truncated to the grid.                                        *)
(***************************************************************************)
\* (3.0 - sqrt(5.0)) / 2.0 on the 1e-3 grid
brent_c == 382

\* the product of two numbers of the 1e-3 grid
brent_times(k, x) == Quot(k * x, 1000)

\* the scalar setters fall through to the FNT_SUCCESS at the end, which an
\* unknown name reaches as well
brent_hparam_set(h, id, value) ==
    CASE id = "x_0" -> [ret |-> FNT_SUCCESS, handle |-> [h EXCEPT !.a = value]]
      [] id = "x_1" -> [ret |-> FNT_SUCCESS, handle |-> [h EXCEPT !.b = value]]
      [] id = "eps" -> [ret |-> FNT_SUCCESS, handle |-> [h EXCEPT !.eps = value]]
      [] id = "t" -> [ret |-> FNT_SUCCESS, handle |-> [h EXCEPT !.t = value]]
      [] OTHER -> [ret |-> FNT_SUCCESS, handle |-> h]

brent_next(h) ==
    IF h.state = "initial" THEN
        LET x == h.a + brent_times(brent_c, h.b - h.a)
        IN  [ret |-> FNT_SUCCESS,
             handle |-> [h EXCEPT !.c = brent_c, !.v = x, !.w = x, !.x = x,
                                  !.e = 0, !.d = 0],
             out |-> <<x>>]
    ELSE [ret |-> FNT_SUCCESS, handle |-> h, out |-> <<h.u>>]

\* a first value that is taken for a value of u
brent_is_update_always(state) == TRUE

\* the value is the f(u) of a running iteration
brent_is_update(state) == state = "running"

\* the locals after "Update a, b, v, w, and x" with f(u) = fu
brent_update(k, u, fu) ==
    IF fu <= k.fx THEN
        [k EXCEPT !.b = IF u < k.x THEN k.x ELSE @,
                  !.a = IF u < k.x THEN @ ELSE k.x,
                  !.v = k.w, !.fv = k.fw, !.w = k.x, !.fw = k.fx,
                  !.x = u, !.fx = fu, !.u = u, !.fu = fu]
    ELSE
        LET n == [k EXCEPT !.a = IF u < k.x THEN u ELSE @,
                           !.b = IF u < k.x THEN @ ELSE u,
                           !.u = u, !.fu = fu]
        IN  IF fu <= k.fw \/ k.w = k.x
            THEN [n EXCEPT !.v = k.w, !.fv = k.fw, !.w = u, !.fw = fu]
            ELSE [n EXCEPT !.v = u, !.fv = fu]

\* the loop body from the stopping criterion to the request for f(u)
brent_step(k) ==
    LET m == Quot(k.a + k.b, 2)
        tol == brent_times(k.eps, Abs(k.x)) + k.t
        t2 == 2 * tol
    IN  IF Abs(k.x - m) > t2 - Quot(k.b - k.a, 2) THEN
            LET fit == Abs(k.e) > tol
                r0 == brent_times(k.x - k.w, k.fx - k.fv)
                q0 == brent_times(k.x - k.v, k.fx - k.fw)
                p1 == brent_times(k.x - k.v, q0) - brent_times(k.x - k.w, r0)
                q1 == 2 * (q0 - r0)
                p == IF ~fit THEN 0 ELSE IF q1 > 0 THEN 0 - p1 ELSE p1
                q == IF ~fit THEN 0 ELSE IF q1 > 0 THEN q1 ELSE 0 - q1
                r == IF fit THEN k.e ELSE 0
                e1 == IF fit THEN k.d ELSE k.e
                parabolic ==
                    /\ Abs(p) < Abs(brent_times(Quot(q, 2), r))
                    /\ p > brent_times(q, k.a - k.x)
                    /\ p < brent_times(q, k.b - k.x)
                dp == Quot(p * 1000, q)
                up == k.x + dp
                d == IF parabolic
                     THEN IF up - k.a < t2 \/ k.b - up < t2
                          THEN IF k.x < m THEN tol ELSE 0 - tol
                          ELSE dp
                     ELSE brent_times(k.c, (IF k.x < m THEN k.b ELSE k.a) - k.x)
                e == IF parabolic THEN e1
                     ELSE (IF k.x < m THEN k.b ELSE k.a) - k.x
            IN  [k EXCEPT !.e = e, !.d = d,
                          !.u = k.x + (IF Abs(d) >= tol THEN d
                                       ELSE IF d > 0 THEN tol ELSE 0 - tol)]
        ELSE [k EXCEPT !.state = "done"]

\* method_value: u starts as the stored v; a value received in the initial
\* state passes through starting to running without the update
brent_value(h, vec, value) ==
    LET k0 == [h EXCEPT !.u = h.v]
        k1 == IF h.state = "initial"
              THEN [k0 EXCEPT !.v = vec[1], !.w = vec[1], !.x = vec[1],
                              !.fv = value, !.fw = value, !.fx = value,
                              !.state = "starting"]
              ELSE k0
        k2 == IF brent_is_update(k1.state)
              THEN brent_update(k1, vec[1], value)
              ELSE [k1 EXCEPT !.state = "running"]
    IN  [ret |-> FNT_SUCCESS, handle |-> brent_step(k2)]

brent_done(h) ==
    IF h.state = "done" THEN [ret |-> FNT_DONE, handle |-> h]
    ELSE [ret |-> FNT_CONTINUE, handle |-> h]

(***************************************************************************)
(* The entry points behind the function pointers of fnt_method_t.          *)
(***************************************************************************)
method_hparam_set(lib, h, id, value) ==
    CASE lib = "secant" -> secant_hparam_set(h, id, value)
      [] lib = "newton-raphson" -> nr_hparam_set(h, id, value)
      [] lib = "stub" -> stub_hparam_set(h, id, value)
      [] lib = "nelder-mead" -> nm_hparam_set(h, id, value)
      [] lib = "gradient estimate" -> ge_hparam_set(h, id, value)
      [] lib = "trapezoidal" -> trapezoidal_hparam_set(h, id, value)
      [] lib = "simpson" -> trapezoidal_hparam_set(h, id, value)
      [] lib = "bisection" -> bisection_hparam_set(h, id, value)
      [] lib = "brent-dekker" -> bd_hparam_set(h, id, value)
      [] lib = "differential evolution" -> de_hparam_set(h, id, value)
      [] lib = "brents-localmin" -> brent_hparam_set(h, id, value)

method_hparam_get(lib, h, id) ==
    CASE lib = "secant" -> secant_hparam_get(h, id)
      [] lib = "newton-raphson" -> nr_hparam_get(h, id)
      [] lib = "stub" -> stub_hparam_get(h, id)
      [] lib = "nelder-mead" -> nm_hparam_get(h, id)

method_next(lib, h) ==
    CASE lib = "secant" -> secant_next(h)
      [] lib = "newton-raphson" -> nr_next(h)
      [] lib = "stub" -> stub_next(h)
      [] lib = "nelder-mead" -> nm_next(h)
      [] lib = "gradient estimate" -> ge_next(h)
      [] lib = "trapezoidal" -> trapezoidal_next(h)
      [] lib = "simpson" -> trapezoidal_next(h)
      [] lib = "bisection" -> bisection_next(h)
      [] lib = "brent-dekker" -> bd_next(h)
      [] lib = "differential evolution" -> de_next(h)
      [] lib = "brents-localmin" -> brent_next(h)

method_value(lib, h, vec, value) ==
    CASE lib = "secant" -> secant_value(h, vec, value)
      [] lib = "newton-raphson" -> nr_value(h, vec, value)
      [] lib = "stub" -> stub_value(h, vec, value)
      [] lib = "nelder-mead" -> nm_value(h, vec, value)
      [] lib = "gradient estimate" -> ge_value(h, vec, value)
      [] lib = "trapezoidal" -> trapezoidal_value(h, vec, value)
      [] lib = "simpson" -> simpson_value(h, vec, value)
      [] lib = "bisection" -> bisection_value(h, vec, value)
      [] lib = "brent-dekker" -> bd_value(h, vec, value)
      [] lib = "differential evolution" -> de_value(h, vec, value)
      [] lib = "brents-localmin" -> brent_value(h, vec, value)

method_value_gradient(lib, h, vec, value, gradient) ==
    CASE lib = "newton-raphson" -> nr_value_gradient(h, vec, value, gradient)
      [] lib = "stub" -> stub_value_gradient(h, vec, value, gradient)

method_done(lib, h) ==
    CASE lib = "secant" -> secant_done(h)
      [] lib = "newton-raphson" -> nr_done(h)
      [] lib = "stub" -> stub_done(h)
      [] lib = "nelder-mead" -> nm_done(h)
      [] lib = "gradient estimate" -> ge_done(h)
      [] lib = "trapezoidal" -> trapezoidal_done(h)
      [] lib = "simpson" -> trapezoidal_done(h)
      [] lib = "bisection" -> bisection_done(h)
      [] lib = "brent-dekker" -> bd_done(h)
      [] lib = "differential evolution" -> de_done(h)
      [] lib = "brents-localmin" -> brent_done(h)

method_result(lib, h, id) ==
    CASE lib = "secant" -> secant_result(h, id)
      [] lib = "newton-raphson" -> nr_result(h, id)
      [] lib = "stub" -> stub_result(h, id)
      [] lib = "nelder-mead" -> nm_result(h, id)
      [] lib = "gradient estimate" -> ge_result(h, id)
      [] lib = "trapezoidal" -> trapezoidal_result(h, id)
      [] lib = "simpson" -> trapezoidal_result(h, id)

\* the libraries whose method_free also frees what the instance points to
FreesMembers == {"nelder-mead", "differential evolution", "gradient estimate"}

\* method_free(&handle): the outcomes it can have.  Freeing through an
\* instance of another library's type reads pointers that are not there.
method_free(lib, h) ==
    IF h = NoHandle THEN
        IF lib = "nelder-mead"
        THEN {[ret |-> FNT_FAILURE, handle |-> h, crash |-> TRUE, freed |-> 0]}
        ELSE {[ret |-> FNT_FAILURE, handle |-> h, crash |-> FALSE, freed |-> 0]}
    ELSE IF h.kind # lib /\ lib \in FreesMembers THEN
        {[ret |-> FNT_SUCCESS, handle |-> NoHandle, crash |-> FALSE, freed |-> 1],
         [ret |-> FNT_FAILURE, handle |-> h, crash |-> TRUE, freed |-> 0]}
    ELSE {[ret |-> FNT_SUCCESS, handle |-> NoHandle, crash |-> FALSE,
           freed |-> 1]}

method_seed(lib, h, seed) ==
    CASE lib = "nelder-mead" -> nm_seed(h, seed)

(***************************************************************************)
(* fnt.c: the context and the method it has loaded.                        *)
(***************************************************************************)
Revisions == {"fnt_c", "part_003"}

\* fnt_method_t after calloc()/memset(): every function pointer NULL
ZeroMethod ==
    [lib |-> "NULL", handle |-> NoHandle, best_x |-> NullVect, best_fx |-> 0,
     has_best |-> 0]

\* the function pointer fnt_method_load took from dlsym(), or NULL
HasSym(m, sym) == sym \in Syms(m.lib)

\* fnt_register_methods: one entry per library file of the methods
\* directory, in readdir() order; path is the entry's own index.
RECURSIVE Directory(_)
Directory(copies) ==
    IF copies = 0 THEN <<>>
    ELSE Directory(copies - 1) \o [i \in 1..Len(LibNames) |-> LibNames[i]]

\* context_t after fnt_init
InitContext ==
    [methods_list |-> Directory(MaxCopies), dl_handle |-> 0, dim |-> 0,
     method |-> ZeroMethod]

\* what one driver call leaves behind: the context, the value returned, the
\* vector or result written for the caller, the method entry points called,
\* and whether the process died in the call.
Outcome(c, ret, out, invoked) ==
    [ctx |-> c, ret |-> ret, out |-> out, invoked |-> invoked, crash |-> FALSE,
     instances |-> 0, vectors |-> 0]

Crash(c, invoked) ==
    [ctx |-> c, ret |-> FNT_FAILURE, out |-> <<>>, invoked |-> invoked,
     crash |-> TRUE, instances |-> 0, vectors |-> 0]

\* the outcome o of a call in which calloc() also handed out n method
\* instances and v vectors that the call did not free
Allocating(o, n, v) ==
    [o EXCEPT !.instances = @ + n, !.vectors = @ + v]

\* fnt_method_load(ctx, entries[i].path)
fnt_method_load(c, i, dlopenOk) ==
    IF ~dlopenOk THEN [ret |-> FNT_FAILURE, ctx |-> c]
    ELSE LET lib == c.methods_list[i]
             loaded == [c EXCEPT !.dl_handle = i, !.method.lib = lib]
         IN  IF ~(Required \subseteq Syms(lib))
             THEN [ret |-> FNT_FAILURE,
                   ctx |-> [loaded EXCEPT !.method = ZeroMethod, !.dl_handle = 0]]
             ELSE [ret |-> FNT_SUCCESS, ctx |-> loaded]

\* whether the "keep looking for one that might work" continue is taken
\* after a failed load or init
ContinuesOnFailure(r, level) == r = "fnt_c" \/ level >= FNT_ERROR

\* the tail of fnt_set_method once an entry has been loaded and initialized
set_method_finish(r, c, dimensions, ret) ==
    IF r = "part_003"
    THEN Allocating(
             Outcome([c EXCEPT !.method.best_x = fnt_vect_calloc(dimensions),
                               !.method.best_fx = 0, !.method.has_best = 0],
                     ret, <<>>, {"method_init"}), 0, 1)
    ELSE Outcome(c, ret, <<>>, {"method_init"})

\* the instance as the library installed beside revision r of fnt.c makes it:
\* bisection.c, whose method_result(handle, extra) is the one fnt_result of
\* part_003 calls, goes with part_003, the later snapshot with fnt.c
Installed(r, h) ==
    IF h.kind = "bisection" /\ r = "part_003"
    THEN [h EXCEPT !.file = "bisection_c"] ELSE h

\* the loop of fnt_set_method from entry i on.  dlFail and callocFail are the
\* entries whose dlopen(), and whose method_init's calloc(), fail.
RECURSIVE set_method_scan(_, _, _, _, _, _, _, _)
set_method_scan(r, level, c, i, name, dimensions, dlFail, callocFail) ==
    IF i > Len(c.methods_list) THEN Outcome(c, FNT_FAILURE, <<>>, {})
    ELSE IF c.methods_list[i] # name THEN
        set_method_scan(r, level, c, i + 1, name, dimensions, dlFail, callocFail)
    ELSE
        LET ld == fnt_method_load(c, i, i \notin dlFail)
        IN  IF ld.ret = FNT_FAILURE /\ ContinuesOnFailure(r, level) THEN
                set_method_scan(r, level, ld.ctx, i + 1, name, dimensions,
                                dlFail, callocFail)
            ELSE IF ~HasSym(ld.ctx.method, "method_init") THEN Crash(ld.ctx, {})
            ELSE
                LET in == method_init(ld.ctx.method.lib, ld.ctx.method.handle,
                                      dimensions, i \notin callocFail)
                    c2 == [ld.ctx EXCEPT !.method.handle = Installed(r, in.handle)]
                    \* the instance this method_init obtained from calloc()
                    n == IF i \notin callocFail THEN 1 ELSE 0
                IN  IF in.crash THEN Crash(c2, {"method_init"})
                    ELSE IF in.ret = FNT_FAILURE /\ ContinuesOnFailure(r, level)
                    THEN Allocating(
                             set_method_scan(r, level, c2, i + 1, name,
                                             dimensions, dlFail, callocFail),
                             n, 0)
                    ELSE Allocating(set_method_finish(r, c2, dimensions, in.ret),
                                    n, 0)

fnt_set_method(r, level, c, name, dimensions, dlFail, callocFail) ==
    set_method_scan(r, level, [c EXCEPT !.dim = dimensions], 1, name,
                    dimensions, dlFail, callocFail)

\* a method entry point handed a handle of another method's type, or one it
\* does not test for NULL, is outside what this model follows
Usable(m) == m.handle.kind = m.lib

fnt_hparam_set(r, level, c, id, value) ==
    IF ~HasSym(c.method, "method_hparam_set") THEN Outcome(c, FNT_FAILURE, <<>>, {})
    ELSE IF ~Usable(c.method) THEN Crash(c, {"method_hparam_set"})
    ELSE LET m == method_hparam_set(c.method.lib, c.method.handle, id, value)
         IN  Outcome([c EXCEPT !.method.handle = m.handle], m.ret, <<>>,
                     {"method_hparam_set"})

fnt_hparam_get(r, level, c, id) ==
    IF ~HasSym(c.method, "method_hparam_get") THEN Outcome(c, FNT_FAILURE, <<>>, {})
    ELSE IF ~Usable(c.method) THEN Crash(c, {"method_hparam_get"})
    ELSE LET m == method_hparam_get(c.method.lib, c.method.handle, id)
         IN  Outcome(c, m.ret, m.out, {"method_hparam_get"})

fnt_next(r, level, c) ==
    IF ~HasSym(c.method, "method_next") THEN Outcome(c, FNT_FAILURE, <<>>, {})
    ELSE IF ~Usable(c.method) THEN Crash(c, {"method_next"})
    ELSE LET m == method_next(c.method.lib, c.method.handle)
         IN  IF m.ret = NoReturn THEN Crash(c, {"method_next"})
             ELSE Outcome([c EXCEPT !.method.handle = m.handle], m.ret, m.out,
                          {"method_next"})

\* a best-seen test that also lets an equal value replace the best
BestImprovesOrTies(m, value) == AtMost(value, m.best_fx) \/ m.has_best = 0

\* value < best_fx || has_best == 0
BestImproves(m, value) == Less(value, m.best_fx) \/ m.has_best = 0

\* the best-seen update of part_003's fnt_set_value and fnt_set_value_gradient
track_best(m, vec, value) ==
    IF BestImproves(m, value)
    THEN [m EXCEPT !.best_x = fnt_vect_copy(m.best_x, Vect(vec)).dst,
                   !.best_fx = value, !.has_best = 1]
    ELSE m

fnt_set_value(r, level, c, vec, value) ==
    IF ~HasSym(c.method, "method_value") THEN Outcome(c, FNT_FAILURE, <<>>, {})
    ELSE IF ~Usable(c.method) THEN Crash(c, {"method_value"})
    ELSE LET m == method_value(c.method.lib, c.method.handle, vec, value)
             c2 == [c EXCEPT !.method.handle = m.handle]
         IN  IF r = "part_003"
             THEN Outcome([c2 EXCEPT !.method = track_best(c2.method, vec, value)],
                          m.ret, <<>>, {"method_value"})
             ELSE Outcome(c2, m.ret, <<>>, {"method_value"})

fnt_set_value_gradient(r, level, c, vec, value, gradient) ==
    IF r = "fnt_c" /\ ~HasSym(c.method, "method_value_gradient") THEN
        \* fall back to non-gradient function
        fnt_set_value(r, level, c, vec, value)
    ELSE IF r = "part_003" /\ ~HasSym(c.method, "method_value") THEN
        Outcome(c, FNT_FAILURE, <<>>, {})
    ELSE IF ~HasSym(c.method, "method_value_gradient") THEN
        \* the call through the NULL function pointer
        Crash(c, {})
    ELSE IF ~Usable(c.method) THEN Crash(c, {"method_value_gradient"})
    ELSE LET m == method_value_gradient(c.method.lib, c.method.handle, vec,
                                        value, gradient)
             c2 == [c EXCEPT !.method.handle = m.handle]
         IN  IF r = "part_003"
             THEN Outcome([c2 EXCEPT !.method = track_best(c2.method, vec, value)],
                          m.ret, <<>>, {"method_value_gradient"})
             ELSE Outcome(c2, m.ret, <<>>, {"method_value_gradient"})

\* part_003 only: fnt_seed(context, vec)
fnt_seed(r, level, c, vec) ==
    IF ~HasSym(c.method, "method_seed") THEN Outcome(c, FNT_FAILURE, <<>>, {})
    ELSE IF ~Usable(c.method) THEN Crash(c, {"method_seed"})
    ELSE LET m == method_seed(c.method.lib, c.method.handle, vec)
         IN  Outcome([c EXCEPT !.method.handle = m.handle], m.ret, <<>>,
                     {"method_seed"})

\* fnt_free(&context): the outcomes it can have
fnt_free(r, level, c) ==
    LET released(k) == [k EXCEPT !.methods_list = <<>>, !.dl_handle = 0]
    IN  IF ~HasSym(c.method, "method_free")
        THEN {Outcome(released(c), FNT_SUCCESS, <<>>, {})}
        ELSE {IF m.crash THEN Crash(c, {"method_free"})
              ELSE Allocating(
                       Outcome(released([c EXCEPT !.method.handle = m.handle]),
                               m.ret, <<>>, {"method_free"}),
                       0 - m.freed, 0) :
              m \in method_free(c.method.lib, c.method.handle)}

fnt_done(r, level, c) ==
    IF ~HasSym(c.method, "method_done") THEN Outcome(c, FNT_FAILURE, <<>>, {})
    ELSE IF ~Usable(c.method) THEN Crash(c, {"method_done"})
    ELSE LET m == method_done(c.method.lib, c.method.handle)
         IN  Outcome([c EXCEPT !.method.handle = m.handle], m.ret, <<>>,
                     {"method_done"})

\* part_003 only: fnt_best(context, vec), vec allocated by the caller with
\* vecLen elements
fnt_best(r, level, c, vecLen) ==
    IF ~HasSym(c.method, "method_next") THEN Outcome(c, FNT_FAILURE, <<>>, {})
    ELSE IF c.method.has_best # 0
    THEN LET cp == fnt_vect_copy(fnt_vect_calloc(vecLen), c.method.best_x)
         IN  Outcome(c, cp.ret, IF cp.ret = FNT_SUCCESS THEN cp.dst.v ELSE <<>>, {})
    ELSE Outcome(c, FNT_FAILURE, <<>>, {})

\* whether fnt_result gives up when fnt_done(context) != FNT_DONE
ResultRefused(r, level) == r = "fnt_c" \/ level >= FNT_ERROR

\* fnt_result(context, name, value_ptr); in part_003 fnt_result(context,
\* extra), where the getter receives extra in the place of the name and no
\* value pointer: a getter that then stores through it (misuse) may die.
fnt_result(r, level, c, name, misuse) ==
    IF ~HasSym(c.method, "method_result") THEN
        Outcome(c, IF r = "fnt_c" THEN FNT_SUCCESS ELSE FNT_FAILURE, <<>>, {})
    ELSE
        LET d == fnt_done(r, level, c)
        IN  IF d.crash THEN d
            ELSE IF d.ret # FNT_DONE /\ ResultRefused(r, level)
            THEN Outcome(d.ctx, FNT_FAILURE, <<>>, d.invoked)
            ELSE IF ~Usable(d.ctx.method)
            THEN Crash(d.ctx, d.invoked \cup {"method_result"})
            ELSE LET m == method_result(d.ctx.method.lib, d.ctx.method.handle,
                                        name)
                 IN  IF r = "part_003" /\ m.out # <<>>
                     THEN IF misuse
                          THEN Crash(d.ctx, d.invoked \cup {"method_result"})
                          ELSE Outcome(d.ctx, m.ret, <<>>,
                                       d.invoked \cup {"method_result"})
                     ELSE Outcome(d.ctx, m.ret, m.out,
                                  d.invoked \cup {"method_result"})

(***************************************************************************)
(* The program: one context driven by a caller.                            *)
(***************************************************************************)
VARIABLES rev, fnt_verbose_level, ctx, crashed, call, doneReturned,
          nextsSinceValue, bound, observed, selects, heap

vars == <<rev, fnt_verbose_level, ctx, crashed, call, doneReturned,
          nextsSinceValue, bound, observed, selects, heap>>

\* the methods whose iteration is followed step by step
IterNames == {"secant", "newton-raphson", "stub"}
\* every name a caller may ask for: the catalogue's, and one it lacks
AllNames == {LibNames[i] : i \in 1..Len(LibNames)} \cup {"nosuch"}
HparamIds == {"x_0", "f_tol"}
ResultIds == {"root"}

\* the catalogue entries a name matches
Matching(c, name) == {i \in 1..Len(c.methods_list) : c.methods_list[i] = name}

\* a caller's vector of length d, every element x
Filled(d, x) == [i \in 1..d |-> x]

\* the record of the call just made
Made(op, arg, o) ==
    [op |-> op, arg |-> arg, ret |-> o.ret, out |-> o.out,
     invoked |-> o.invoked]

InitWith(revs) ==
    /\ rev \in revs
    /\ fnt_verbose_level = FNT_WARN
    /\ ctx = InitContext
    /\ crashed = FALSE
    /\ call = [op |-> "fnt_init", arg |-> <<>>, ret |-> FNT_SUCCESS,
               out |-> <<>>, invoked |-> {}]
    /\ doneReturned = FALSE
    /\ nextsSinceValue = 0
    /\ bound = FALSE
    /\ observed = <<>>
    /\ selects = 0
    /\ heap = [instances |-> 0, vectors |-> 0, context |-> 1, closed |-> FALSE]

FntVerbose ==
    /\ ~crashed
    /\ \E level \in Levels :
        /\ fnt_verbose_level' = level
        /\ call' = [op |-> "verbose", arg |-> [level |-> level],
                    ret |-> FNT_SUCCESS, out |-> <<>>, invoked |-> {}]
    /\ UNCHANGED <<rev, ctx, crashed, doneReturned, nextsSinceValue, bound,
                   observed, selects, heap>>

\* fnt_set_method(ctx, name, d); with oracles, any matching entry's dlopen()
\* or calloc() may fail; limit > 0 caps the selections made on the context,
\* and the heap is then followed too
FntSetMethod(names, dims, oracles, limit) ==
    /\ ~crashed
    /\ ~heap.closed
    /\ limit > 0 => selects < limit
    /\ selects' = IF limit > 0 THEN selects + 1 ELSE selects
    /\ \E name \in names, d \in dims :
       \E dlFail \in (IF oracles THEN SUBSET Matching(ctx, name) ELSE {{}}) :
       \E callocFail \in (IF oracles THEN SUBSET (Matching(ctx, name) \ dlFail)
                                      ELSE {{}}) :
            \E o \in {fnt_set_method(rev, fnt_verbose_level, ctx, name, d,
                                     dlFail, callocFail)} :
                /\ ctx' = o.ctx
                /\ crashed' = o.crash
                /\ call' = Made("set_method",
                                [name |-> name, d |-> d, dlFail |-> dlFail,
                                 callocFail |-> callocFail], o)
                /\ bound' = (~o.crash /\ o.ret = FNT_SUCCESS)
                /\ heap' = IF limit > 0
                           THEN [heap EXCEPT !.instances = @ + o.instances,
                                             !.vectors = @ + o.vectors]
                           ELSE heap
    /\ doneReturned' = FALSE
    /\ nextsSinceValue' = 0
    /\ observed' = <<>>
    /\ UNCHANGED <<rev, fnt_verbose_level>>

FntHparamSet ==
    /\ ~crashed
    /\ \E id \in HparamIds, value \in HVals :
        \E o \in {fnt_hparam_set(rev, fnt_verbose_level, ctx, id, value)} :
            /\ ctx' = o.ctx
            /\ crashed' = o.crash
            /\ call' = Made("hparam_set", <<>>, o)
    /\ UNCHANGED <<rev, fnt_verbose_level, doneReturned, nextsSinceValue,
                   bound, observed, selects, heap>>

\* fnt_hparam_set(ctx, id, &value), the identifier kept in the record
FntHparamSetId(ids, values) ==
    /\ ~crashed
    /\ \E id \in ids, value \in values :
        \E o \in {fnt_hparam_set(rev, fnt_verbose_level, ctx, id, value)} :
            /\ ctx' = o.ctx
            /\ crashed' = o.crash
            /\ call' = Made("hparam_set", [id |-> id, value |-> value], o)
    /\ UNCHANGED <<rev, fnt_verbose_level, doneReturned, nextsSinceValue,
                   bound, observed, selects, heap>>

FntHparamGet(ids) ==
    /\ ~crashed
    /\ \E id \in ids :
        \E o \in {fnt_hparam_get(rev, fnt_verbose_level, ctx, id)} :
            /\ ctx' = o.ctx
            /\ crashed' = o.crash
            /\ call' = Made("hparam_get", [id |-> id], o)
    /\ UNCHANGED <<rev, fnt_verbose_level, doneReturned, nextsSinceValue,
                   bound, observed, selects, heap>>

FntNext ==
    /\ ~crashed
    /\ \E o \in {fnt_next(rev, fnt_verbose_level, ctx)} :
           /\ ctx' = o.ctx
           /\ crashed' = o.crash
           /\ call' = Made("next", <<>>, o)
    /\ nextsSinceValue' = IF nextsSinceValue < 2 THEN nextsSinceValue + 1 ELSE 2
    /\ UNCHANGED <<rev, fnt_verbose_level, doneReturned, bound, observed,
                   selects, heap>>

\* rand()/RAND_MAX as method_next of de.c can draw it
UnitDraws == {0, One}

\* the index draws that end the loops of de.c's method_next, taken among the
\* first MaxPick members; with NP < 3 no draw ends them
Picks(NP) ==
    IF NP < 3 THEN {<<0, 0, 0>>}
    ELSE LET top == (IF NP < MaxPick THEN NP ELSE MaxPick) - 1
         IN  {r \in [1..3 -> 0..top] : r[1] # r[2] /\ r[1] # r[3] /\ r[2] # r[3]}

\* fnt_next on differential evolution, rand() yielding any of its values
FntNextRand ==
    /\ ~crashed
    /\ bound
    /\ ctx.method.handle.kind = "differential evolution"
    /\ \E u \in [1..ctx.dim -> UnitDraws], r \in Picks(ctx.method.handle.NP) :
        \E o \in {fnt_next(rev, fnt_verbose_level,
                           [ctx EXCEPT !.method.handle.rand =
                                           [u |-> u, r |-> r]])} :
           /\ ctx' = [o.ctx EXCEPT !.method.handle.rand =
                                       [u |-> <<>>, r |-> <<>>]]
           /\ crashed' = o.crash
           /\ call' = Made("next", <<>>, o)
    /\ nextsSinceValue' = IF nextsSinceValue < 2 THEN nextsSinceValue + 1 ELSE 2
    /\ UNCHANGED <<rev, fnt_verbose_level, doneReturned, bound, observed,
                   selects, heap>>

\* the history of values handed in, kept up to cap of them when cap > 0
Observe(cap, vec, value) ==
    IF cap > 0 /\ HasSym(ctx.method, "method_value")
    THEN Append(observed, [vec |-> vec, fv |-> value])
    ELSE observed

FntSetValue(values, cap) ==
    /\ ~crashed
    /\ cap > 0 => Len(observed) < cap
    /\ \E x \in InputVals, value \in values :
        \E vec \in {Filled(ctx.dim, x)} :
        \E o \in {fnt_set_value(rev, fnt_verbose_level, ctx, vec, value)} :
            /\ ctx' = o.ctx
            /\ crashed' = o.crash
            /\ call' = Made("set_value", [vec |-> vec, value |-> value], o)
            /\ observed' = Observe(cap, vec, value)
    /\ nextsSinceValue' = 0
    /\ UNCHANGED <<rev, fnt_verbose_level, doneReturned, bound, selects, heap>>

\* fnt_set_value(ctx, x, fx) for the x that fnt_next has just handed out
FntAnswer(values, cap) ==
    /\ ~crashed
    /\ cap > 0 => Len(observed) < cap
    /\ call.op = "next" /\ call.ret = FNT_SUCCESS
    /\ \E value \in values :
        \E vec \in {call.out} :
        \E o \in {fnt_set_value(rev, fnt_verbose_level, ctx, vec, value)} :
            /\ ctx' = o.ctx
            /\ crashed' = o.crash
            /\ call' = Made("set_value", [vec |-> vec, value |-> value], o)
            /\ observed' = Observe(cap, vec, value)
    /\ nextsSinceValue' = 0
    /\ UNCHANGED <<rev, fnt_verbose_level, doneReturned, bound, selects, heap>>

\* fnt_free(&ctx), the last call a caller makes on the context
FntFree ==
    /\ ~crashed
    /\ ~heap.closed
    /\ \E o \in fnt_free(rev, fnt_verbose_level, ctx) :
           /\ ctx' = o.ctx
           /\ crashed' = o.crash
           /\ call' = Made("free", <<>>, o)
           /\ heap' = [instances |-> heap.instances + o.instances,
                       vectors |-> heap.vectors + o.vectors,
                       context |-> IF ~o.crash /\ o.ret = FNT_SUCCESS
                                   THEN 0 ELSE 1,
                       closed |-> TRUE]
    /\ UNCHANGED <<rev, fnt_verbose_level, doneReturned, nextsSinceValue,
                   bound, observed, selects>>

\* part_003 only: fnt_seed(ctx, vec) with a vector of the session's length
FntSeed ==
    /\ ~crashed
    /\ rev = "part_003"
    /\ \E x \in InputVals :
        \E vec \in {Filled(ctx.dim, x)} :
        \E o \in {fnt_seed(rev, fnt_verbose_level, ctx, vec)} :
            /\ ctx' = o.ctx
            /\ crashed' = o.crash
            /\ call' = Made("seed", [vec |-> vec], o)
    /\ UNCHANGED <<rev, fnt_verbose_level, doneReturned, nextsSinceValue,
                   bound, observed, selects, heap>>

FntSetValueGradient(track) ==
    /\ ~crashed
    /\ track => Len(observed) < MaxCalls
    /\ \E x \in InputVals, value \in FVals, g \in FVals :
        \E vec \in {Filled(ctx.dim, x)}, gradient \in {Filled(ctx.dim, g)} :
        \E o \in {fnt_set_value_gradient(rev, fnt_verbose_level, ctx, vec,
                                         value, gradient)} :
            /\ ctx' = o.ctx
            /\ crashed' = o.crash
            /\ call' = Made("set_value_gradient",
                            [vec |-> vec, value |-> value,
                             gradient |-> gradient], o)
            /\ observed' = Observe(IF track THEN MaxCalls ELSE 0, vec, value)
    /\ nextsSinceValue' = 0
    /\ UNCHANGED <<rev, fnt_verbose_level, doneReturned, bound, selects, heap>>

FntDone ==
    /\ ~crashed
    /\ \E o \in {fnt_done(rev, fnt_verbose_level, ctx)} :
           /\ ctx' = o.ctx
           /\ crashed' = o.crash
           /\ call' = Made("done", <<>>, o)
           /\ doneReturned' = (doneReturned \/ (~o.crash /\ o.ret = FNT_DONE))
    /\ UNCHANGED <<rev, fnt_verbose_level, nextsSinceValue, bound, observed,
                   selects, heap>>

FntBest ==
    /\ ~crashed
    /\ rev = "part_003"
    /\ \E vecLen \in 1..MaxDim :
        \E o \in {fnt_best(rev, fnt_verbose_level, ctx, vecLen)} :
            /\ ctx' = o.ctx
            /\ crashed' = o.crash
            /\ call' = Made("best", [vecLen |-> vecLen], o)
    /\ UNCHANGED <<rev, fnt_verbose_level, doneReturned, nextsSinceValue,
                   bound, observed, selects, heap>>

\* complete: what fnt_done would answer at the moment of the call
FntResult ==
    /\ ~crashed
    /\ \E name \in ResultIds, misuse \in BOOLEAN :
        \E o \in {fnt_result(rev, fnt_verbose_level, ctx, name, misuse)},
           d \in {fnt_done(rev, fnt_verbose_level, ctx)} :
            /\ ctx' = o.ctx
            /\ crashed' = o.crash
            /\ call' = Made("result",
                            [name |-> name,
                             complete |-> (~d.crash /\ d.ret = FNT_DONE)], o)
    /\ UNCHANGED <<rev, fnt_verbose_level, doneReturned, nextsSinceValue,
                   bound, observed, selects, heap>>

(***************************************************************************)
(* Spec: the iteration protocol on a single-variate session.               *)
(***************************************************************************)
Init == InitWith(Revisions)

Next ==
    \/ FntVerbose
    \/ FntSetMethod(IterNames, {1}, FALSE, 0)
    \/ FntHparamSet
    \/ FntNext
    \/ FntSetValue(FVals, 0)
    \/ FntSetValueGradient(FALSE)
    \/ FntDone
    \/ FntResult

Spec == Init /\ [][Next]_vars

(***************************************************************************)
(* SpecSelect: method selection over the whole catalogue.                  *)
(***************************************************************************)
NextSelect ==
    \/ FntVerbose
    \/ FntSetMethod(AllNames, Dims, TRUE, MaxSelects)

SpecSelect == Init /\ [][NextSelect]_vars

(***************************************************************************)
(* SpecBest: best-seen tracking (the fnt.c of part_003).                   *)
(***************************************************************************)
InitBest == InitWith({"part_003"})

NextBest ==
    \/ FntSetMethod({"secant", "stub"}, 1..MaxDim, FALSE, 0)
    \/ FntSetValue(0..MaxF, MaxCalls)
    \/ FntBest

SpecBest == InitBest /\ [][NextBest]_vars

(***************************************************************************)
(* SpecLife: selections and the closing of a session, with the heap.       *)
(***************************************************************************)
NextLife ==
    \/ NextSelect
    \/ FntFree

SpecLife == Init /\ [][NextLife]_vars

(***************************************************************************)
(* SpecHparam: hyper-parameters set and read by name.                      *)
(***************************************************************************)
\* the names a library's method_hparam_set and method_hparam_get compare with
HparamNames(lib) ==
    CASE lib = "secant" -> {"x_0", "x_1", "f_tol"}
      [] lib = "newton-raphson" -> {"x_0", "f_tol"}
      [] lib = "stub" -> {"placeholder"}
      [] lib = "nelder-mead" -> {"alpha", "beta", "gamma", "delta"}
      [] OTHER -> {}

\* the member of the instance a library's FNT_HPARAM_SET stores the name in
HparamField(lib, id) ==
    IF lib = "newton-raphson" /\ id = "x_0" THEN "next_x" ELSE id

\* the identifiers a caller passes: some names, and one no library has
AnyIds == HparamIds \cup {"alpha", "nosuch"}

NextHparam ==
    \/ FntSetMethod(IterNames \cup {"nelder-mead"}, {1}, FALSE, 0)
    \/ FntHparamSetId(AnyIds, HVals)
    \/ FntHparamGet(AnyIds)

SpecHparam == Init /\ [][NextHparam]_vars

(***************************************************************************)
(* SpecArea: the trapezoidal rule and Simpson's rule, configured before    *)
(* the first value, every value answering the point fnt_next handed out.   *)
(***************************************************************************)
Integrators == {"trapezoidal", "simpson"}

NextArea ==
    \/ FntSetMethod(Integrators, {1}, FALSE, 0)
    \/ observed = <<>> /\ FntHparamSetId({"lower", "upper", "n"}, 0..MaxN)
    \/ FntNext
    \/ FntAnswer(0..MaxF, MaxN + 2)
    \/ FntDone
    \/ FntResult

SpecArea == Init /\ [][NextArea]_vars

(***************************************************************************)
(* SpecGradient: gradient estimation, configured before the first value    *)
(* and driven while fnt_done answers FNT_CONTINUE, as its test drives it.  *)
(***************************************************************************)
StepVals == 1..(MaxH + 1)

\* the vectors a caller hands in: every length, every element x
Vectors(xs) == {Filled(d, x) : d \in 1..MaxDim, x \in xs}

NextGradient ==
    \/ FntSetMethod({"gradient estimate"}, 1..MaxDim, FALSE, 0)
    \/ observed = <<>> /\ FntHparamSetId({"step"}, StepVals)
    \/ observed = <<>> /\ FntHparamSetId({"x0"}, Vectors(InputVals))
    \/ observed = <<>> /\ FntHparamSetId({"step_vec"}, Vectors(StepVals))
    \/ Len(observed) <= ctx.dim /\ FntNext
    \/ FntAnswer(0..MaxF, MaxDim + 2)
    \/ FntDone

SpecGradient == Init /\ [][NextGradient]_vars

(***************************************************************************)
(* SpecNM: a Nelder-Mead session of part_003, every value answering the    *)
(* point fnt_next has just handed out.                                     *)
(***************************************************************************)
NextNM ==
    \/ FntSetMethod({"nelder-mead"}, 1..MaxDim, FALSE, 0)
    \/ FntSeed
    \/ FntNext
    \/ FntAnswer(0..MaxF, MaxEvals)
    \/ FntDone

SpecNM == InitBest /\ [][NextNM]_vars

\* bisection sessions as bisection_test.c drives them: lower and upper set in
\* any order and any relation before the first point, then next, set_value
\* of the point handed out and done at any time
NextBisect ==
    \/ FntSetMethod({"bisection"}, {1}, FALSE, 0)
    \/ observed = <<>> /\ FntHparamSetId({"lower", "upper"},
                                      {1000 * x : x \in InputVals})
    \/ FntNext
    \/ FntAnswer(FVals, MaxEvals)
    \/ FntDone

SpecBisect == Init /\ [][NextBisect]_vars

\* Brent-Dekker sessions: x_0 and x_1 set before the first point, then next,
\* set_value of the point handed out and done at any time
NextBrent ==
    \/ FntSetMethod({"brent-dekker"}, {1}, FALSE, 0)
    \/ observed = <<>> /\ FntHparamSetId({"x_0", "x_1"},
                                      {8 * x : x \in InputVals})
    \/ FntNext
    \/ FntAnswer((0 - MaxF - 1)..(MaxF + 1), MaxEvals - 1)
    \/ FntDone

SpecBrent == Init /\ [][NextBrent]_vars

\* Brent's localmin sessions of the later brent.c: the bracket and the
\* absolute tolerance set before the first point, then next, set_value of
\* the point handed out and done at any time
NextLocalmin ==
    \/ FntSetMethod({"brents-localmin"}, {1}, FALSE, 0)
    \/ observed = <<>> /\ FntHparamSetId({"x_0", "x_1"},
                                      {2000 * x : x \in InputVals})
    \/ observed = <<>> /\ FntHparamSetId({"t"}, {100 * x : x \in 0..MaxH})
    \/ FntNext
    \/ FntAnswer(FVals, MaxEvals)
    \/ FntDone

SpecLocalmin == Init /\ [][NextLocalmin]_vars

\* secant sessions whose selection may be refused: fnt_set_method for 1 to
\* MaxDim dimensions, then next, set_value and done in any order
NextRefused ==
    \/ FntSetMethod({"secant"}, 1..MaxDim, FALSE, MaxSelects)
    \/ FntNext
    \/ FntSetValue(FVals, MaxCalls)
    \/ FntDone

SpecRefused == Init /\ [][NextRefused]_vars

\* one-dimensional Nelder-Mead sessions on a constant objective, long enough
\* for the iteration counter to pass max_iterations
NextNMRun ==
    \/ FntSetMethod({"nelder-mead"}, {1}, FALSE, 0)
    \/ FntSeed
    \/ FntNext
    \/ FntAnswer({0}, MaxRun)
    \/ FntDone

SpecNMRun == InitBest /\ [][NextNMRun]_vars

\* the driver loop of nelder-mead_test.c: while fnt_done answers
\* FNT_CONTINUE, fnt_next and fnt_set_value of the point handed out.  The
\* first MaxEvals values are any number or not a number, the later ones 0.
NextNMLoop ==
    \/ FntSetMethod({"nelder-mead"}, 1..MaxDim, FALSE, 1)
    \/ bound /\ call.op \in {"set_method", "set_value"} /\ FntDone
    \/ call.op = "done" /\ call.ret = FNT_CONTINUE /\ FntNext
    \/ FntAnswer(IF Len(observed) < MaxEvals THEN FVals \cup {NaN} ELSE {0},
                 MaxRun + 1)

SpecNMLoop == Init /\ [][NextNMLoop]_vars

\* Nelder-Mead on an objective that is not a number at some of the points
\* tried after the bootstrap; the bootstrap and the shrink points get numbers
NextNMShrink ==
    \/ FntSetMethod({"nelder-mead"}, 1..MaxDim, FALSE, 1)
    \/ FntNext
    \/ FntAnswer(0..MaxF, MaxEvals + 2)
    \/ /\ bound
       /\ ctx.method.handle.state \in
              {"reflect", "expand", "contract_out", "contract_in"}
       /\ FntAnswer({NaN}, MaxEvals + 2)
    \/ FntDone

SpecNMShrink == InitBest /\ [][NextNMShrink]_vars

\* no point has been asked for yet
Unstarted == nextsSinceValue = 0 /\ observed = <<>>

\* NP and iterations have been given values of the model's range
Configured ==
    /\ bound
    /\ ctx.method.handle.NP <= MaxPick
    /\ ctx.method.handle.iterations <= MaxIter

\* differential evolution on one dimension, NP and iterations set before the
\* first point, then next, set_value of the point handed out and done
NextDE ==
    \/ FntSetMethod({"differential evolution"}, {1}, FALSE, 1)
    \/ Unstarted /\ FntHparamSetId({"NP"}, 2..MaxPick)
    \/ Unstarted /\ FntHparamSetId({"iterations"}, 1..MaxIter)
    \/ Configured /\ FntNextRand
    \/ FntAnswer((0 - MaxF)..0, MaxEvals + 2)
    \/ FntDone

SpecDE == InitWith({"fnt_c"}) /\ [][NextDE]_vars

\* differential evolution with NP and the bounds set at any time of the run,
\* the bounds in any order, NP within the generations allocated; the budget
\* stays at its default of 1000 generations, which the runs do not reach
NextDELate ==
    \/ FntSetMethod({"differential evolution"}, {1}, FALSE, 1)
    \/ /\ bound
       /\ FntHparamSetId({"NP"},
                         {n \in 2..MaxPick : n <= Len(ctx.method.handle.x)})
    \/ FntHparamSetId({"lower", "upper"},
                      [1..ctx.dim -> {x * One : x \in InputVals}])
    \/ Unstarted /\ FntHparamSetId({"start"}, {Filled(ctx.dim, MaxX * One)})
    \/ FntNextRand
    \/ FntAnswer((0 - MaxF)..0, MaxCalls + 1)

SpecDELate == InitWith({"fnt_c"}) /\ [][NextDELate]_vars

(***************************************************************************)
(* Properties.                                                             *)
(***************************************************************************)

\* C1: once done has returned complete, every later set_value or
\* set_value_with_gradient call on that method returns failure.
C1_ValueAfterDoneFails ==
    (doneReturned /\ call.op \in {"set_value", "set_value_gradient"})
        => call.ret = FNT_FAILURE

\* C2: once done has returned complete, every later next call on that method
\* returns failure.
C2_NextAfterDoneFails ==
    (doneReturned /\ call.op = "next") => call.ret = FNT_FAILURE

\* C3: after done(session) has returned complete, next(session, out) fails
\* and the driver does not call the bound method's next entry point.
C3_NextAfterDoneNotForwarded ==
    (doneReturned /\ call.op = "next")
        => (call.ret = FNT_FAILURE /\ "method_next" \notin call.invoked)

\* the least objective value of a history of set_value calls
MinFv(h) ==
    CHOOSE m \in {h[i].fv : i \in 1..Len(h)} :
        \A j \in 1..Len(h) : m <= h[j].fv

\* the earliest call of the history that attains it
Earliest(h) ==
    CHOOSE i \in 1..Len(h) :
        /\ h[i].fv = MinFv(h)
        /\ \A j \in 1..(i - 1) : h[j].fv # MinFv(h)

\* C4: after any sequence of set_value calls on a session with a bound
\* method, best (given a vector of the session's length) succeeds and
\* returns the vector of the earliest call whose fv is the minimum of the
\* fv of all calls made so far.
C4_BestIsEarliestMinimum ==
    (call.op = "best" /\ bound /\ observed # <<>>
        /\ call.arg.vecLen = ctx.dim)
        => (call.ret = FNT_SUCCESS
            /\ call.out = observed[Earliest(observed)].vec)

\* best answered after a later call tied the minimum with another vector
C4_Witness ==
    /\ call.op = "best" /\ bound /\ call.arg.vecLen = ctx.dim
    /\ call.ret = FNT_SUCCESS
    /\ Len(observed) >= 2
    /\ \E j \in (Earliest(observed) + 1)..Len(observed) :
        /\ observed[j].fv = MinFv(observed)
        /\ observed[j].vec # observed[Earliest(observed)].vec
    /\ call.out = observed[Earliest(observed)].vec

\* C5: result called on a session with a bound method while done does not
\* answer complete fails and does not call the method's result getter, at
\* every verbosity level and for every method.
C5_ResultBeforeDoneRefused ==
    (call.op = "result" /\ bound /\ ~call.arg.complete)
        => (call.ret = FNT_FAILURE /\ "method_result" \notin call.invoked)

\* C6: when next is called twice on a session with no set_value in between,
\* the second call returns an error.
C6_SecondNextFails ==
    (call.op = "next" /\ nextsSinceValue >= 2) => call.ret = FNT_FAILURE

\* whether catalogue entry i loads and initializes for d dimensions, given
\* the entries whose dlopen() and calloc() fail
Instantiable(i, d, dlFail, callocFail) ==
    /\ fnt_method_load(InitContext, i, i \notin dlFail).ret = FNT_SUCCESS
    /\ LET in == method_init(InitContext.methods_list[i], NoHandle, d,
                             i \notin callocFail)
       IN  ~in.crash /\ in.ret = FNT_SUCCESS

\* the first entries named name that can be instantiated (one or none)
FirstInstantiable(name, d, dlFail, callocFail) ==
    {i \in Matching(InitContext, name) :
        /\ Instantiable(i, d, dlFail, callocFail)
        /\ \A j \in Matching(InitContext, name) :
            j < i => ~Instantiable(j, d, dlFail, callocFail)}

\* C7: method_select (when it returns at all) binds the first catalogue
\* entry, in catalogue order, whose name matches and whose load and
\* initialization succeed; matching entries that fail to instantiate are
\* skipped, at every verbosity level.
C7_FirstInstantiableBound ==
    (call.op = "set_method" /\ ~crashed) =>
        \A i \in FirstInstantiable(call.arg.name, call.arg.d,
                                   call.arg.dlFail, call.arg.callocFail) :
            /\ call.ret = FNT_SUCCESS
            /\ ctx.dl_handle = i
            /\ ctx.method.lib = call.arg.name

\* C8: method_select with dimensionality d < 1 fails for every method name
\* and binds no method.
C8_SelectRejectsNonPositiveDim ==
    (call.op = "set_method" /\ call.arg.d < 1)
        => (call.ret = FNT_FAILURE /\ ~bound)

\* C9: selecting a single-variate method with d > 1 fails.
C9_SingleVariateRejectsManyDims ==
    (call.op = "set_method" /\ call.arg.name \in SingleVariate
        /\ call.arg.d > 1)
        => call.ret = FNT_FAILURE

\* C10: when the bound method has no set_value_with_gradient entry point,
\* the driver's set_value_with_gradient(v, fv, g) leaves the session as
\* set_value(v, fv) would and returns what it would.
C10_GradientFallsBackToValue ==
    [][(/\ call'.op = "set_value_gradient"
        /\ HasSym(ctx.method, "method_value")
        /\ ~HasSym(ctx.method, "method_value_gradient"))
        => LET o == fnt_set_value(rev, fnt_verbose_level, ctx,
                                  call'.arg.vec, call'.arg.value)
           IN  /\ ctx' = o.ctx
               /\ crashed' = o.crash
               /\ call'.ret = o.ret]_vars

\* C11: a seed call succeeds only on a method still in its initial mode;
\* once the method has left that mode the call fails and the stored seed
\* stays as it was.
C11_SeedOnlyWhileInitial ==
    [][(call'.op = "seed" /\ ~crashed') =>
          LET m == ctx.method
              initial == /\ HasSym(m, "method_seed")
                         /\ Usable(m)
                         /\ m.handle.state = "initial"
          IN  /\ call'.ret = FNT_SUCCESS => initial
              /\ (HasSym(m, "method_seed") /\ Usable(m) /\ ~initial) =>
                     /\ call'.ret = FNT_FAILURE
                     /\ ctx'.method.handle.seed = m.handle.seed]_vars

\* a seed differing from the stored one was refused after the bootstrap
C11_Witness ==
    /\ call.op = "seed"
    /\ call.ret = FNT_FAILURE
    /\ call.invoked = {"method_seed"}
    /\ ctx.method.handle.state # "initial"
    /\ ctx.method.handle.seed # call.arg.vec

\* C12: whatever state the session is in, closing it leaves no method
\* instance, no vector and no context allocated.
C12_CloseReleasesAll ==
    (heap.closed /\ ~crashed) =>
        /\ heap.instances = 0
        /\ heap.vectors = 0
        /\ heap.context = 0

\* C13: at most one method instance is allocated at any point of a
\* session; in particular a session that holds one bound instance still
\* holds no more than one after the method has been selected again.
C13_AtMostOneInstance ==
    [][(/\ bound
        /\ heap.instances <= 1
        /\ call'.op = "set_method"
        /\ ~crashed'
        /\ call'.ret = FNT_SUCCESS) => heap'.instances <= 1]_vars

\* C14: for every method, hparam_set and hparam_get with an identifier the
\* method does not recognize fail and leave the configuration as it was.
C14_UnknownHparamFails ==
    [][(/\ call'.op \in {"hparam_set", "hparam_get"}
        /\ ~crashed'
        /\ bound
        /\ call'.arg.id \notin HparamNames(ctx.method.lib)) =>
            /\ call'.ret = FNT_FAILURE
            /\ ctx'.method.handle = ctx.method.handle]_vars

\* C15: a trapezoidal or Simpson session configured with n >= 1 and driven
\* by alternating next and set_value emits x_0 + k*(x_1 - x_0)/n as its k-th
\* point, k = 0..n in order, and done answers complete once n + 1 values
\* have been received and not before.
C15_EquallySpacedPoints ==
    LET m == ctx.method
        h == m.handle
        k == Len(observed)
    IN  (~crashed /\ bound /\ m.lib \in Integrators /\ h.n >= 1) =>
            /\ (call.op = "next" /\ k <= h.n) =>
                   /\ call.ret = FNT_SUCCESS
                   /\ call.out = <<h.x_0 + Quot(k * (h.x_1 - h.x_0), h.n)>>
            /\ call.op = "done" =>
                   (call.ret = FNT_DONE <=> k = h.n + 1)
            /\ k <= h.n + 1

\* the last point of a run of three subintervals has been handed out
C15_Witness ==
    /\ bound /\ ctx.method.lib \in Integrators
    /\ ctx.method.handle.n = 3
    /\ ctx.method.handle.x_1 - ctx.method.handle.x_0 = 3
    /\ Len(observed) = 3
    /\ call.op = "next"
    /\ call.out = <<ctx.method.handle.x_1>>

\* C16: neither integrator hands out an abscissa for an invalid subinterval
\* count: with n < 1, and with an odd n for Simpson's rule, next fails.
C16_InvalidCountRejected ==
    LET m == ctx.method
    IN  (/\ ~crashed /\ bound /\ m.lib \in Integrators
         /\ call.op = "next"
         /\ \/ m.handle.n < 1
            \/ m.lib = "simpson" /\ m.handle.n % 2 = 1) =>
            call.ret = FNT_FAILURE

\* C17: gradient estimation in dimension d hands out x0 first and then,
\* for k = 0..d-1 in order, x0 with only element k increased by its step;
\* done answers complete once d + 1 values have been received and not
\* before; and gradient[k] holds (f_k - fx0)/h_k for every k received.
C17_GradientByForwardDifferences ==
    LET m == ctx.method
        h == m.handle
        n == Len(observed)
        step(k) == IF h.has_steps_vec # 0 THEN h.steps[k] ELSE h.step
    IN  (~crashed /\ bound /\ m.lib = "gradient estimate") =>
            /\ (call.op = "next" /\ n = 0) =>
                   call.ret = FNT_SUCCESS /\ call.out = h.x0
            /\ (call.op = "next" /\ n >= 1) =>
                   /\ call.ret = FNT_SUCCESS
                   /\ call.out = [h.x0 EXCEPT ![n] = @ + step(n)]
            /\ call.op = "done" =>
                   (call.ret = FNT_DONE <=> n = Len(h.x0) + 1)
            /\ \A k \in 1..(n - 1) :
                   h.gradient[k]
                       = Quot((observed[k + 1].fv - observed[1].fv) * One,
                              step(k))

\* a two-dimensional estimate is complete, f(x0) was not zero and the
\* function fell along the second axis
C17_Witness ==
    /\ bound /\ ctx.method.lib = "gradient estimate"
    /\ Len(observed) = 3
    /\ observed[1].fv # 0
    /\ ctx.method.handle.gradient[2] < 0
    /\ call.op = "done" /\ call.ret = FNT_DONE

\* C18: during the Nelder-Mead bootstrap in dimension d the first next
\* returns the seed, the next made when the simplex holds count points
\* (1 <= count <= d) returns the seed with element count-1 increased by
\* count, and the mode is reflect once d + 1 points have been evaluated and
\* initial until then.
C18_BootstrapPoints ==
    LET m == ctx.method
        h == m.handle
        count == Len(h.simplex)
    IN  (~crashed /\ bound /\ m.lib = "nelder-mead") =>
            /\ count = (IF Len(observed) <= h.dimensions
                        THEN Len(observed) ELSE h.dimensions + 1)
            /\ (call.op = "next" /\ count = 0) =>
                   call.ret = FNT_SUCCESS /\ call.out = h.seed
            /\ (call.op = "next" /\ count >= 1 /\ count <= h.dimensions) =>
                   /\ call.ret = FNT_SUCCESS
                   /\ \A i \in 1..h.dimensions :
                          call.out[i] = h.seed[i] + (IF i = count THEN count * One
                                                    ELSE 0)
            /\ h.state = "initial" <=> Len(observed) <= h.dimensions
            /\ Len(observed) = h.dimensions + 1 => h.state = "reflect"

\* the third point of a two-dimensional bootstrap has been handed out
C18_Witness ==
    /\ bound /\ ctx.method.lib = "nelder-mead"
    /\ ctx.method.handle.dimensions = 2
    /\ Len(ctx.method.handle.simplex) = 2
    /\ call.op = "next"
    /\ call.out = [ctx.method.handle.seed EXCEPT ![2] = @ + 2 * One]

\* C19: after the bootstrap of Nelder-Mead, done returns complete only when
\* the number of iterations performed exceeds max_iterations or the best and
\* the worst simplex points are closer than dist_threshold, and continue
\* otherwise. Every iteration evaluates at least one point, so the values
\* received after the d + 1 bootstrap points bound the iterations performed.
C19_DoneOnIterationsOrDistance ==
    LET m == ctx.method
        h == m.handle
        close == DistBelow(h.simplex[1].parameters,
                           h.simplex[Len(h.simplex)].parameters,
                           h.dist_threshold)
    IN  (~crashed /\ bound /\ m.lib = "nelder-mead" /\ call.op = "done"
             /\ h.state # "initial") =>
            /\ call.ret \in {FNT_DONE, FNT_CONTINUE}
            /\ close => call.ret = FNT_DONE
            /\ call.ret = FNT_DONE =>
                   \/ close
                   \/ Len(observed) - (h.dimensions + 1) > h.max_iterations

\* C20: when Nelder-Mead receives for a contract-out point a value not
\* below f(x_r), or for a contract-in point a value not below f(h), that
\* set_value leaves the method in shrink mode.
C20_FailedContractionShrinks ==
    [][LET m == ctx.method
           h == m.handle
           hi == nm_simplex_sort(h.simplex)[Len(h.simplex)]
       IN  (/\ ~crashed /\ ~crashed' /\ bound /\ m.lib = "nelder-mead"
            /\ call'.op = "set_value" /\ call'.ret = FNT_SUCCESS
            /\ \/ h.state = "contract_out" /\ call'.arg.value >= h.x_r.value
               \/ h.state = "contract_in" /\ call'.arg.value >= hi.value) =>
               ctx'.method.handle.state = "shrink"]_vars

\* C21: when the two endpoint values of bisection cannot be arranged as
\* f(a) < 0 < f(b), the set_value delivering the second one fails and the
\* method does not enter running mode.
C21_BadBracketRefused ==
    [][LET h == ctx.method.handle
           g == ctx'.method.handle
           lo == IF call'.arg.value < h.f_a THEN call'.arg.value ELSE h.f_a
           up == IF call'.arg.value < h.f_a THEN h.f_a ELSE call'.arg.value
       IN  (/\ ~crashed /\ ~crashed' /\ bound /\ ctx.method.lib = "bisection"
            /\ call'.op = "set_value" /\ h.state = "initial2"
            /\ ~(lo < 0 /\ 0 < up)) =>
               call'.ret = FNT_FAILURE /\ g.state # "running"]_vars

\* C22: whenever bisection is in running mode the stored bracket satisfies
\* f(a) < 0 < f(b).
C22_RunningBracketSigns ==
    (~crashed /\ bound /\ ctx.method.lib = "bisection"
         /\ ctx.method.handle.state = "running") =>
        ctx.method.handle.f_a < 0 /\ 0 < ctx.method.handle.f_b

\* C23: once lower and upper are in place, bisection's done returns continue
\* until both endpoint values have been received, whatever lower and upper
\* were set to.
C23_NoCompletionBeforeTwoValues ==
    LET h == ctx.method.handle
    IN  (/\ ~crashed /\ bound /\ ctx.method.lib = "bisection"
         /\ call.op = "done" /\ Len(observed) < 2
         /\ h.file = "simpson_c"
               \/ (h.a = h.lower_bound /\ h.b = h.upper_bound)) =>
            call.ret = FNT_CONTINUE

\* C24: when the two initial evaluations of Brent-Dekker satisfy
\* f(a) * f(b) > 0, the set_value delivering the second value returns failure
\* and leaves the method done, with a, c, d and e as they were: no
\* interpolation or bisection step is taken.
C24_SameSignEndsRun ==
    [][LET h == ctx.method.handle
           g == ctx'.method.handle
       IN  (/\ ~crashed /\ ~crashed' /\ bound /\ ctx.method.lib = "brent-dekker"
            /\ call'.op = "set_value" /\ h.state = "initial2"
            /\ h.f_a * call'.arg.value > 0) =>
               /\ call'.ret = FNT_FAILURE
               /\ g = [h EXCEPT !.state = "done", !.b = call'.arg.vec[1],
                                !.f_b = call'.arg.value]]_vars

\* a second endpoint value of the sign of the first has been refused
C24_Witness ==
    /\ bound /\ ctx.method.lib = "brent-dekker"
    /\ call.op = "set_value" /\ call.ret = FNT_FAILURE
    /\ Len(observed) = 2
    /\ observed[1].fv * observed[2].fv > 0
    /\ ctx.method.handle.state = "done"

\* the first point of a differential evolution run with a budget of I
\* iterations and N members has just been handed out
de_started(I, N) ==
    /\ bound
    /\ ctx.method.lib = "differential evolution"
    /\ call.op = "next"
    /\ observed = <<>>
    /\ ctx.method.handle.iterations = I
    /\ ctx.method.handle.NP = N

\* the budget left after the values received so far, and done's answer
de_budgeted(I, N) ==
    bound =>
        /\ ctx.method.handle.iterations = I - Len(observed) \div N
        /\ (call.op = "done" /\ ~crashed) =>
                (call.ret = FNT_DONE <=> Len(observed) >= N * I)

C26_PopulationAtLeastThree ==
    (/\ bound
     /\ ctx.method.lib = "differential evolution"
     /\ call.op \in {"next", "set_value"}
     /\ "method_next" \in call.invoked \/ "method_value" \in call.invoked)
        => ctx.method.handle.NP >= 3

\* the vector just handed out lies between the two bounds in every dimension
de_in_box(h, out) ==
    \A j \in 1..Len(out) :
        \/ h.lower_bounds[j] <= out[j] /\ out[j] <= h.upper_bounds[j]
        \/ h.upper_bounds[j] <= out[j] /\ out[j] <= h.lower_bounds[j]

\* C27: when the lower and the upper bounds are set, every vector that next
\* of differential evolution returns, in the initial generation and in the
\* later ones, lies in every dimension within the box the bounds span, also
\* when a lower bound above the upper bound was supplied.
C27_NextWithinBounds ==
    (/\ bound
     /\ ctx.method.lib = "differential evolution"
     /\ call.op = "next" /\ call.ret = FNT_SUCCESS /\ ~crashed
     /\ ctx.method.handle.has_lower_bounds = 1
     /\ ctx.method.handle.has_upper_bounds = 1)
        => de_in_box(ctx.method.handle, call.out)

\* a trial vector of a later generation was handed out under a lower bound
\* that lies above the upper bound
C27_Witness ==
    /\ bound
    /\ ctx.method.lib = "differential evolution"
    /\ call.op = "next" /\ call.ret = FNT_SUCCESS
    /\ ctx.method.handle.state = "running"
    /\ Len(observed) >= 3
    /\ ctx.method.handle.has_lower_bounds = 1
    /\ ctx.method.handle.has_upper_bounds = 1
    /\ ctx.method.handle.lower_bounds[1] > ctx.method.handle.upper_bounds[1]
    /\ de_in_box(ctx.method.handle, call.out)

\* C28: when differential evolution has completed, (minimum x, minimum f) is
\* a pair that some set_value call supplied, and minimum f is no greater
\* than any value of the last completed generation.
C28_ResultIsBestSupplied ==
    (/\ bound
     /\ ctx.method.lib = "differential evolution"
     /\ ctx.method.handle.state = "done")
        => /\ \E k \in 1..Len(observed) :
                observed[k] = [vec |-> ctx.method.handle.min_x,
                               fv |-> ctx.method.handle.min_fx]
           /\ \A i \in 1..ctx.method.handle.NP :
                ctx.method.handle.min_fx <= ctx.method.handle.fx_prev[i]

\* C30: differential evolution stays in the initial state until NP values
\* have been received; no set_value before the NP-th one moves it to
\* running.
C30_InitialUntilFirstGeneration ==
    (/\ bound
     /\ ctx.method.lib = "differential evolution"
     /\ call.op = "set_value"
     /\ Len(observed) < ctx.method.handle.NP)
        => ctx.method.handle.state = "initial"

\* C29: once Nelder-Mead is in shrink, the mode passes shrink ->
\* shrink-second -> reflect, moved on by the set_value of each phase and by
\* nothing else; the one next of shrink-second hands out the scratch vector
\* the shrink phase stored, which the set_value in between leaves alone; the
\* simplex holds d+1 points throughout.
C29_ShrinkTwoPhases ==
    [][(/\ bound
        /\ ctx.method.lib = "nelder-mead"
        /\ ctx.method.handle.state \in {"shrink", "shrink2"}
        /\ call'.op \in {"next", "set_value", "done"}
        /\ ~crashed')
        => LET h == ctx.method.handle
               g == ctx'.method.handle
           IN  /\ Len(h.simplex) = h.dimensions + 1
               /\ Len(g.simplex) = h.dimensions + 1
               /\ call'.op # "done" => call'.ret = FNT_SUCCESS
               /\ call'.op = "set_value" =>
                      /\ g.state = IF h.state = "shrink" THEN "shrink2"
                                   ELSE "reflect"
                      /\ g.s_shrink = h.s_shrink
               /\ call'.op # "set_value" => g.state = h.state
               /\ (call'.op = "next" /\ h.state = "shrink2"
                       /\ nextsSinceValue = 0) =>
                      call'.out = h.s_shrink]_vars

\* the value of the second shrink point has been received and the mode is
\* reflect again: the value before the two shrink values was not a number
C29_Witness ==
    /\ bound
    /\ ctx.method.lib = "nelder-mead"
    /\ ctx.method.handle.state = "reflect"
    /\ call.op = "set_value"
    /\ Len(observed) >= 3
    /\ observed[Len(observed) - 2].fv = NaN
    /\ observed[Len(observed) - 1].vec # observed[Len(observed)].vec
    /\ ctx.method.handle.simplex[ctx.method.handle.dimensions] =
           [parameters |-> observed[Len(observed)].vec,
            value |-> observed[Len(observed)].fv]

\* C31: after any sequence of next, set_value and hparam_set calls the
\* current index of differential evolution satisfies 0 <= current < NP.
C31_CurrentIndexBelowNP ==
    (/\ bound
     /\ ctx.method.lib = "differential evolution"
     /\ call.op \in {"next", "set_value", "hparam_set"}
     /\ ~crashed)
        => /\ 0 <= ctx.method.handle.current
           /\ ctx.method.handle.current < ctx.method.handle.NP
\* the point Brent's localmin asks for after the value of the interior point
\* x of the bracket [a, b] with absolute tolerance t: a golden-section step
\* from x into the larger part, no shorter than the tolerance
golden_from(a, b, x, t) ==
    LET d == brent_times(brent_c, (IF x < Quot(a + b, 2) THEN b ELSE a) - x)
    IN  x + (IF Abs(d) >= t THEN d ELSE IF d > 0 THEN t ELSE 0 - t)

first_localmin_value ==
    /\ bound /\ ctx.method.lib = "brents-localmin"
    /\ ctx.method.handle.state = "initial"
    /\ call'.op = "set_value" /\ call'.ret = FNT_SUCCESS

\* C32 as stated: after the first set_value of Brent's localmin the mode is
\* starting.
C32_StartingAfterFirstValue ==
    [][first_localmin_value
           => ctx'.method.handle.state = "starting"]_vars

\* C32 amended: the first set_value of Brent's localmin, received in
\* initial mode, leaves the mode running (done when the stopping test holds
\* at once), keeps the bracket a, b as it was, stores the value as fx = fw
\* = fv, and the next that follows hands out the golden-section point
\* computed from the initial interior point.
C32_FirstValueSkipsUpdate ==
    /\ [][first_localmin_value
             => /\ ctx'.method.handle.state \in {"running", "done"}
                /\ ctx'.method.handle.a = ctx.method.handle.a
                /\ ctx'.method.handle.b = ctx.method.handle.b
                /\ ctx'.method.handle.x = call'.arg.vec[1]
                /\ ctx'.method.handle.fx = call'.arg.value
                /\ ctx'.method.handle.fw = call'.arg.value
                /\ ctx'.method.handle.fv = call'.arg.value]_vars
    /\ [][(/\ bound /\ ctx.method.lib = "brents-localmin"
            /\ Len(observed) = 1 /\ call.op = "set_value"
            /\ ctx.method.handle.state = "running"
            /\ call'.op = "next")
             => /\ call'.ret = FNT_SUCCESS
                /\ call'.out = <<golden_from(ctx.method.handle.a,
                                             ctx.method.handle.b,
                                             observed[1].vec[1],
                                             ctx.method.handle.t)>>]_vars

C32_Witness ==
    /\ bound /\ ctx.method.lib = "brents-localmin"
    /\ Len(observed) = 1 /\ call.op = "next" /\ call.ret = FNT_SUCCESS
    /\ ctx.method.handle.state = "running"
    /\ ctx.method.handle.a < ctx.method.handle.b
    /\ call.out[1] > observed[1].vec[1]

\* C33: after every Brent-Dekker set_value processed in starting or running
\* mode (the second endpoint value accepted, and every value after it), the
\* stored values satisfy |f_b| <= |f_c|.
C33_BestIsB ==
    [][(/\ bound /\ ctx.method.lib = "brent-dekker"
        /\ call'.op = "set_value"
        /\ \/ ctx.method.handle.state = "running"
           \/ /\ ctx.method.handle.state = "initial2"
              /\ call'.ret = FNT_SUCCESS)
           => Abs(ctx'.method.handle.f_b) <= Abs(ctx'.method.handle.f_c)]_vars

\* a value in running mode for which b and c changed places
C33_Witness ==
    /\ bound /\ ctx.method.lib = "brent-dekker"
    /\ call.op = "set_value" /\ call.ret = FNT_SUCCESS
    /\ Len(observed) >= 3
    /\ ctx.method.handle.f_c = call.arg.value
    /\ Abs(ctx.method.handle.f_b) < Abs(ctx.method.handle.f_c)

\* C34: when bisection receives the second endpoint value and it is below
\* the first, a and b change places and so do f_a and f_b: afterwards a is
\* the former upper bound, b the former lower bound, f_a the value just
\* received and f_b the first value.
C34_EndpointsExchanged ==
    [][(/\ bound /\ ctx.method.lib = "bisection"
        /\ ctx.method.handle.state = "initial2"
        /\ call'.op = "set_value"
        /\ call'.arg.value < ctx.method.handle.f_a)
           => /\ ctx'.method.handle.a = ctx.method.handle.b
              /\ ctx'.method.handle.b = ctx.method.handle.a
              /\ ctx'.method.handle.f_a = call'.arg.value
              /\ ctx'.method.handle.f_b = ctx.method.handle.f_a]_vars

\* C35: after a fnt_set_method that returned failure the session has no
\* bound method: every next, set_value and done call that follows fails.
C35_RefusedSelectionBindsNothing ==
    (~bound /\ selects > 0 /\ call.op \in {"next", "set_value", "done"})
        => /\ ~crashed
           /\ call.ret = FNT_FAILURE
           /\ call.invoked = {}

\* C36: completion is absorbing: once fnt_done has returned FNT_DONE for
\* the bound method, every later fnt_done returns FNT_DONE, whatever next,
\* set_value or hparam_set calls were made in between.
C36_DoneStaysDone ==
    (doneReturned /\ call.op = "done") => call.ret = FNT_DONE

\* C37: for every method, hparam_set with an identifier the bound method
\* recognizes returns success and changes the instance in the parameter of
\* that name only, which then holds the value.
C37_KnownHparamStored ==
    [][(/\ call'.op = "hparam_set"
        /\ ~crashed'
        /\ bound
        /\ call'.arg.id \in HparamNames(ctx.method.lib)) =>
            /\ call'.ret = FNT_SUCCESS
            /\ ctx'.method.handle =
                   [ctx.method.handle EXCEPT
                       ![HparamField(ctx.method.lib, call'.arg.id)] =
                           call'.arg.value]]_vars

\* C38: every call of differential evolution's next returns: the draws of
\* the pairwise distinct indexes r1, r2, r3 come to an end for every NP that
\* hparam_set can have stored at any point of the run.
C38_NextReturns ==
    (/\ ctx.method.lib = "differential evolution"
     /\ call.op = "next"
     /\ "method_next" \in call.invoked) => ~crashed

\* max(d + 1, max_iterations + 1) for the Nelder-Mead instance h
nm_loop_bound(h) ==
    IF h.dimensions > h.max_iterations THEN h.dimensions + 1
    ELSE h.max_iterations + 1

\* C39: the Nelder-Mead driver loop ends for every sequence of objective
\* values: the instance has counted every value received, and the done
\* asked after max(d + 1, max_iterations + 1) values answers complete, so
\* that no further value is ever received.
C39_LoopEnds ==
    (bound /\ ctx.method.lib = "nelder-mead" /\ ~crashed) =>
        /\ ctx.method.handle.iterations = Len(observed)
        /\ Len(observed) <= nm_loop_bound(ctx.method.handle)
        /\ (call.op = "done"
            /\ Len(observed) >= nm_loop_bound(ctx.method.handle))
               => call.ret = FNT_DONE
        /\ call.op \in {"next", "set_value"} => call.ret = FNT_SUCCESS

\* a loop that the iteration limit ended, the simplex still being wide
C39_Witness ==
    /\ bound /\ ctx.method.lib = "nelder-mead"
    /\ call.op = "done" /\ call.ret = FNT_DONE
    /\ Len(observed) = nm_loop_bound(ctx.method.handle)
    /\ ~DistBelow(ctx.method.handle.simplex[1].parameters,
                  ctx.method.handle.simplex[2].parameters,
                  ctx.method.handle.dist_threshold)

\* the lowest objective value held in a simplex
nm_lowest(simplex) ==
    LET held == {simplex[i].value : i \in 1..Len(simplex)}
    IN  CHOOSE v \in held : \A w \in held : v <= w

\* C40: once the bootstrap has filled the simplex, no set_value raises the
\* lowest objective value it holds, in any mode and any dimension.
C40_LowestNeverRises ==
    [][(/\ bound /\ ctx.method.lib = "nelder-mead"
        /\ Len(ctx.method.handle.simplex) = ctx.method.handle.dimensions + 1
        /\ call'.op = "set_value")
           => nm_lowest(ctx'.method.handle.simplex)
                  <= nm_lowest(ctx.method.handle.simplex)]_vars

====
